---- MODULE Spec2Model ----
(***************************************************************************)
(* imgStore: a single-file image store (header, fixed slot table, heap of  *)
(* appended image bytes) with content de-duplication and lazily created    *)
(* resized variants.  The model follows the library functions do_insert,   *)
(* do_delete, do_read, lazily_resize, do_name_and_content_dedup and the    *)
(* tools.c helpers, on one handle opened for reading and writing.          *)
(***************************************************************************)
EXTENDS Integers, Sequences, FiniteSets, TLC

(***************************************************************************)
(* Bounds of the model.                                                    *)
(***************************************************************************)
MaxFiles == 2
MaxVersion == 3
MaxHeapLen == 6
MaxFaults == 1

(***************************************************************************)
(* Program constants (imgStore.h).                                         *)
(***************************************************************************)
EMPTY == 0
NON_EMPTY == 1
RES_THUMB == 0
RES_SMALL == 1
RES_ORIG == 2
NB_RES == 3
DEF_RES_THUMB == 64
DEF_RES_SMALL == 256
INIT_NB_FILES == 0
INIT_VER == 0
INIT_OFFSET == 0
SizeofHeader == 64
SizeofMetadata == 216

ERR_NONE == "ERR_NONE"
ERR_IO == "ERR_IO"
ERR_OUT_OF_MEMORY == "ERR_OUT_OF_MEMORY"
ERR_INVALID_ARGUMENT == "ERR_INVALID_ARGUMENT"
ERR_FILE_NOT_FOUND == "ERR_FILE_NOT_FOUND"
ERR_FULL_IMGSTORE == "ERR_FULL_IMGSTORE"
ERR_DUPLICATE_ID == "ERR_DUPLICATE_ID"
ERR_IMGLIB == "ERR_IMGLIB"
ERR_RESOLUTIONS == "ERR_RESOLUTIONS"

(***************************************************************************)
(* Inputs.  An image id is a non-empty string of at most MAX_IMG_ID chars  *)
(* (for these strcmp and strncmp(.., MAX_IMG_ID) agree).  A JPEG is the    *)
(* byte string <<width, height>> with both positive; any other byte string *)
(* fails to decode.                                                        *)
(***************************************************************************)
Ids == {"x", "y"}
NoId == ""
JpegA == <<128, 64>>
JpegB == <<32, 48>>
NotJpeg == <<0, 7>>
Contents == {JpegA, JpegB, NotJpeg}
NoBytes == <<>>
Resolutions == {RES_THUMB, RES_SMALL, RES_ORIG}
\* the library call that fails during an operation, if any, and the inputs
\* of the calls explored with failing library calls: decodable contents,
\* reads of the original
InsertFaults == {"fseek", "fwrite", "updateHeader", "updateMetadata"}
DeleteFaults == {"updateMetadata", "updateHeader"}
OrigReadFaults == {"fread"}
FaultContents == {JpegA, JpegB}

\* header and metadata are the fields of the handle, ptr tells which of its
\* two references (file, metadata) are set, file is the store file on disk
VARIABLES header, metadata, ptr, file, last, inserted, faults

vars == <<header, metadata, ptr, file, last, inserted, faults>>

(***************************************************************************)
(* SHA256 of a buffer: an injective digest of the byte string, never the   *)
(* all-zero digest of a zeroed slot.                                       *)
(***************************************************************************)
RECURSIVE ShaFold(_, _)
ShaFold(acc, bytes) ==
    IF bytes = <<>> THEN acc
    ELSE ShaFold(acc * 257 + Head(bytes) + 1, Tail(bytes))

SHA256(bytes) == ShaFold(7, bytes)

\* variant: equal digests compare as greater
shaCompare_never_equal(sha1, sha2) ==
    IF sha1 >= sha2 THEN 1 ELSE -1

shaCompare(sha1, sha2) ==
    IF sha1 > sha2 THEN 1 ELSE IF sha1 < sha2 THEN -1 ELSE 0

(***************************************************************************)
(* The image library: decode (vips_jpegload_buffer), vips_resize by a      *)
(* ratio num/den, encode (vips_jpegsave_buffer).                           *)
(***************************************************************************)
IsJpeg(bytes) == Len(bytes) = 2 /\ bytes[1] > 0 /\ bytes[2] > 0

vips_jpegload_buffer(bytes) == [Xsize |-> bytes[1], Ysize |-> bytes[2]]

Scale(n, num, den) ==
    LET r == (2 * n * num + den) \div (2 * den) IN IF r < 1 THEN 1 ELSE r

vips_resize(image, num, den) ==
    [Xsize |-> Scale(image.Xsize, num, den), Ysize |-> Scale(image.Ysize, num, den)]

vips_jpegsave_buffer(image) == <<image.Xsize, image.Ysize>>

\* min(max_resized_width / Xsize, max_resized_height / Ysize) as a fraction
shrink_value(image, max_resized_width, max_resized_height) ==
    IF max_resized_width * image.Ysize > max_resized_height * image.Xsize
    THEN [num |-> max_resized_height, den |-> image.Ysize]
    ELSE [num |-> max_resized_width, den |-> image.Xsize]

get_resolution(image_buffer) ==
    IF IsJpeg(image_buffer)
    THEN [err |-> ERR_NONE, height |-> vips_jpegload_buffer(image_buffer).Ysize,
          width |-> vips_jpegload_buffer(image_buffer).Xsize]
    ELSE [err |-> ERR_IMGLIB, height |-> 0, width |-> 0]

(***************************************************************************)
(* Data structures.                                                        *)
(***************************************************************************)
ZeroMetadata ==
    [img_id |-> NoId, SHA |-> 0, res_orig |-> <<0, 0>>,
     size |-> [r \in 0..(NB_RES - 1) |-> 0],
     offset |-> [r \in 0..(NB_RES - 1) |-> INIT_OFFSET],
     is_valid |-> EMPTY]

\* the two references of a handle: file is NULL or the mode of the open
\* stream, metadata is NULL or an allocated slot table
NULL == "NULL"
NullRefs == [file |-> NULL, metadata |-> NULL]
OpenRefs(open_mode) == [file |-> open_mode, metadata |-> "calloc"]
\* the slot table of a handle whose metadata reference is NULL
NoTable == <<>>

\* no store file: the path does not exist, or the file holds no header
NoStoreFile ==
    [header |-> [imgst_version |-> 0, num_files |-> 0, max_files |-> 0,
                 res_resized |-> <<0, 0, 0, 0>>],
     metadata |-> NoTable, heap |-> <<>>]

\* variant: the loop stops one slot early
do_create_one_slot_short(max_files, res_resized, fault) ==
    LET hdr == [imgst_version |-> INIT_VER, num_files |-> INIT_NB_FILES,
                max_files |-> max_files, res_resized |-> res_resized]
        md == [i \in 0..(max_files - 1) |-> ZeroMetadata]
    IN [err |-> ERR_NONE, header |-> hdr, metadata |-> md, ptr |-> OpenRefs("wb"),
        file |-> [header |-> hdr, metadata |-> [i \in 0..(max_files - 2) |-> ZeroMetadata],
                  heap |-> <<>>]]

\* do_create: header with version 0 and no file, max_files zeroed slots,
\* written to the file in that order; nothing after the slot table.  The
\* file reference is not assigned ("unset") when calloc returns NULL; the
\* slot table is freed when fopen or a write fails.
do_create(max_files, res_resized, fault) ==
    LET hdr == [imgst_version |-> INIT_VER, num_files |-> INIT_NB_FILES,
                max_files |-> max_files, res_resized |-> res_resized]
        md == [i \in 0..(max_files - 1) |-> ZeroMetadata]
    IN IF fault = "calloc"
       THEN [err |-> ERR_OUT_OF_MEMORY, header |-> hdr, metadata |-> NoTable,
             ptr |-> [file |-> "unset", metadata |-> NULL], file |-> NoStoreFile]
       ELSE IF fault = "fopen"
       THEN [err |-> ERR_IO, header |-> hdr, metadata |-> NoTable,
             ptr |-> NullRefs, file |-> NoStoreFile]
       ELSE IF fault = "updateHeader"
       THEN [err |-> ERR_IO, header |-> hdr, metadata |-> NoTable,
             ptr |-> [file |-> "wb", metadata |-> NULL], file |-> NoStoreFile]
       ELSE IF fault = "updateMetadata" /\ 0 < max_files
       THEN [err |-> ERR_IO, header |-> hdr, metadata |-> NoTable,
             ptr |-> [file |-> "wb", metadata |-> NULL],
             file |-> [header |-> hdr, metadata |-> NoTable, heap |-> <<>>]]
       ELSE [err |-> ERR_NONE, header |-> hdr, metadata |-> md, ptr |-> OpenRefs("wb"),
             file |-> [header |-> hdr, metadata |-> md, heap |-> <<>>]]

\* variant: the heap starts right after the header
HeapStart_header_only(f) == SizeofHeader

\* first byte position after the slot table
HeapStart(f) == SizeofHeader + f.header.max_files * SizeofMetadata

\* variant: the position counted from the start of the heap
ftell_end_heap_relative(f) == Len(f.heap)

\* fseek(file, 0, SEEK_END); ftell(file)
ftell_end(f) == HeapStart(f) + Len(f.heap)

\* variant: the bytes are written from the first byte after the slot table
fwrite_end_at_heap_start(f, bytes, fault) ==
    IF Len(bytes) = 0 \/ fault = "fwrite"
    THEN [ok |-> FALSE, file |-> f]
    ELSE [ok |-> TRUE,
          file |-> [f EXCEPT !.heap = bytes \o SubSeq(@, Len(bytes) + 1, Len(@))]]

\* fwrite(buffer, size, 1, file) == 1 at the end of the file; a failing
\* fwrite leaves the file as it was
fwrite_end(f, bytes, fault) ==
    IF Len(bytes) = 0 \/ fault = "fwrite"
    THEN [ok |-> FALSE, file |-> f]
    ELSE [ok |-> TRUE, file |-> [f EXCEPT !.heap = @ \o bytes]]

\* one byte of the file; bytes of the header and of the slot table are not
\* modelled individually and read as -1
FileByte(f, pos) == IF pos < HeapStart(f) THEN -1 ELSE f.heap[pos - HeapStart(f) + 1]

\* fseek(file, offset, SEEK_SET); fread(buffer, size, 1, file) == 1
fread_at(f, offset, size, fault) ==
    IF fault = "fread" \/ size = 0 \/ offset + size > ftell_end(f)
    THEN [ok |-> FALSE, bytes |-> NoBytes]
    ELSE [ok |-> TRUE, bytes |-> [k \in 1..size |-> FileByte(f, offset + k - 1)]]

updateHeader(hdr, f, fault) ==
    IF fault = "updateHeader"
    THEN [err |-> ERR_IO, file |-> f]
    ELSE [err |-> ERR_NONE, file |-> [f EXCEPT !.header = hdr]]

\* variant: the slot is not written to the file
updateMetadata_memory_only(idx, hdr, md, f, fault) ==
    IF hdr.max_files <= idx
    THEN [err |-> ERR_FILE_NOT_FOUND, file |-> f]
    ELSE IF fault = "updateMetadata"
    THEN [err |-> ERR_IO, file |-> f]
    ELSE [err |-> ERR_NONE, file |-> f]

updateMetadata(idx, hdr, md, f, fault) ==
    IF hdr.max_files <= idx
    THEN [err |-> ERR_FILE_NOT_FOUND, file |-> f]
    ELSE IF fault = "updateMetadata"
    THEN [err |-> ERR_IO, file |-> f]
    ELSE [err |-> ERR_NONE, file |-> [f EXCEPT !.metadata[idx] = md[idx]]]

\* variant: only the range of the index is checked
validMetadataIndex_range_only(idx, hdr, md) ==
    IF hdr.max_files <= idx THEN ERR_INVALID_ARGUMENT ELSE ERR_NONE

validMetadataIndex(idx, hdr, md) ==
    IF hdr.max_files <= idx THEN ERR_INVALID_ARGUMENT
    ELSE IF md[idx].is_valid = EMPTY THEN ERR_INVALID_ARGUMENT
    ELSE ERR_NONE

RECURSIVE FindLoop(_, _, _, _)
FindLoop(i, img_id, hdr, md) ==
    IF i < hdr.max_files /\ (md[i].img_id # img_id \/ md[i].is_valid = EMPTY)
    THEN FindLoop(i + 1, img_id, hdr, md)
    ELSE i

\* variant: the index the loop stops at is returned without validation
findMetadataIndex_without_validation(img_id, hdr, md) ==
    LET i == FindLoop(0, img_id, hdr, md) IN [err |-> ERR_NONE, idx |-> i]

findMetadataIndex(img_id, hdr, md) ==
    LET i == FindLoop(0, img_id, hdr, md) IN
    IF validMetadataIndex(i, hdr, md) # ERR_NONE
    THEN [err |-> ERR_FILE_NOT_FOUND, idx |-> 0]
    ELSE [err |-> ERR_NONE, idx |-> i]

\* variant: the stream is closed and the reference to it is kept
do_close_keeps_file_reference(refs, md, f) ==
    [ptr |-> [file |-> refs.file,
              metadata |-> IF refs.metadata # NULL THEN NULL ELSE refs.metadata],
     metadata |-> NoTable, file |-> f]

\* do_close: a stream that is set is closed, which leaves the file as
\* written, and a slot table that is set is freed; both references are NULL
\* afterwards
do_close(refs, md, f) ==
    [ptr |-> [file |-> IF refs.file # NULL THEN NULL ELSE refs.file,
              metadata |-> IF refs.metadata # NULL THEN NULL ELSE refs.metadata],
     metadata |-> NoTable, file |-> f]

\* the slots the file holds
NbSlotsOnFile(f) == Cardinality(DOMAIN f.metadata)

\* fread(metadata, sizeof(img_metadata), max_files, file): the slots read
fread_slots(f) ==
    IF NbSlotsOnFile(f) < f.header.max_files THEN NbSlotsOnFile(f) ELSE f.header.max_files

\* do_open: after the check of the mode, both references are reset, the
\* stream is opened, and the header, then max_files slots, are read from the
\* file; every failure after the reset closes the handle
do_open(open_mode, refs, hdr, md, f, fault) ==
    IF open_mode # "rb" /\ open_mode # "rb+"
    THEN [err |-> ERR_INVALID_ARGUMENT, ptr |-> refs, header |-> hdr, metadata |-> md]
    ELSE IF fault = "fopen"
    THEN [err |-> ERR_IO, ptr |-> do_close(NullRefs, NoTable, f).ptr,
          header |-> hdr, metadata |-> NoTable]
    ELSE IF fault = "calloc"
    THEN [err |-> ERR_OUT_OF_MEMORY, ptr |-> do_close([NullRefs EXCEPT !.file = open_mode], NoTable, f).ptr,
          header |-> f.header, metadata |-> NoTable]
    ELSE IF 1 + fread_slots(f) # f.header.max_files + 1
    THEN [err |-> ERR_IO, ptr |-> do_close(OpenRefs(open_mode), NoTable, f).ptr,
          header |-> f.header, metadata |-> NoTable]
    ELSE [err |-> ERR_NONE, ptr |-> OpenRefs(open_mode), header |-> f.header,
          metadata |-> [i \in 0..(f.header.max_files - 1) |-> f.metadata[i]]]

(***************************************************************************)
(* dedup.c                                                                 *)
(***************************************************************************)
\* variant: the id is compared only with slots of the same content
RECURSIVE DedupLoop_name_if_same_content(_, _, _, _, _)
DedupLoop_name_if_same_content(i, has_content_clone, hdr, md, index) ==
    IF i < hdr.max_files
    THEN IF i # index /\ md[i].is_valid # 0 /\ shaCompare(md[index].SHA, md[i].SHA) = 0
         THEN IF md[index].img_id = md[i].img_id
              THEN [err |-> ERR_DUPLICATE_ID, metadata |-> md, has_content_clone |-> has_content_clone]
              ELSE DedupLoop_name_if_same_content(i + 1, 1, hdr,
                             [md EXCEPT ![index].offset = md[i].offset,
                                        ![index].size = md[i].size], index)
         ELSE DedupLoop_name_if_same_content(i + 1, has_content_clone, hdr, md, index)
    ELSE [err |-> ERR_NONE, metadata |-> md, has_content_clone |-> has_content_clone]

\* variant: only the ORIGINAL offset and size are copied from the clone
RECURSIVE DedupLoop_copies_orig_only(_, _, _, _, _)
DedupLoop_copies_orig_only(i, has_content_clone, hdr, md, index) ==
    IF i < hdr.max_files
    THEN IF i # index /\ md[i].is_valid # 0
         THEN IF md[index].img_id = md[i].img_id
              THEN [err |-> ERR_DUPLICATE_ID, metadata |-> md, has_content_clone |-> has_content_clone]
              ELSE IF shaCompare(md[index].SHA, md[i].SHA) = 0
              THEN DedupLoop_copies_orig_only(i + 1, 1, hdr,
                             [md EXCEPT ![index].offset[RES_ORIG] = md[i].offset[RES_ORIG],
                                        ![index].size[RES_ORIG] = md[i].size[RES_ORIG]], index)
              ELSE DedupLoop_copies_orig_only(i + 1, has_content_clone, hdr, md, index)
         ELSE DedupLoop_copies_orig_only(i + 1, has_content_clone, hdr, md, index)
    ELSE [err |-> ERR_NONE, metadata |-> md, has_content_clone |-> has_content_clone]

RECURSIVE DedupLoop(_, _, _, _, _)
DedupLoop(i, has_content_clone, hdr, md, index) ==
    IF i < hdr.max_files
    THEN IF i # index /\ md[i].is_valid # 0
         THEN IF md[index].img_id = md[i].img_id
              THEN [err |-> ERR_DUPLICATE_ID, metadata |-> md, has_content_clone |-> has_content_clone]
              ELSE IF shaCompare(md[index].SHA, md[i].SHA) = 0
              THEN DedupLoop(i + 1, 1, hdr,
                             [md EXCEPT ![index].offset = md[i].offset,
                                        ![index].size = md[i].size], index)
              ELSE DedupLoop(i + 1, has_content_clone, hdr, md, index)
         ELSE DedupLoop(i + 1, has_content_clone, hdr, md, index)
    ELSE [err |-> ERR_NONE, metadata |-> md, has_content_clone |-> has_content_clone]

\* variant: only the slots after the new one are scanned
do_name_and_content_dedup_from_index(hdr, md, index) ==
    IF hdr.max_files <= index
    THEN [err |-> ERR_INVALID_ARGUMENT, metadata |-> md]
    ELSE LET r == DedupLoop(index + 1, 0, hdr, md, index) IN
         IF r.err # ERR_NONE
         THEN [err |-> r.err, metadata |-> r.metadata]
         ELSE IF r.has_content_clone = 0
         THEN [err |-> ERR_NONE, metadata |-> [r.metadata EXCEPT ![index].offset[RES_ORIG] = 0]]
         ELSE [err |-> ERR_NONE, metadata |-> r.metadata]

do_name_and_content_dedup(hdr, md, index) ==
    IF hdr.max_files <= index
    THEN [err |-> ERR_INVALID_ARGUMENT, metadata |-> md]
    ELSE LET r == DedupLoop(0, 0, hdr, md, index) IN
         IF r.err # ERR_NONE
         THEN [err |-> r.err, metadata |-> r.metadata]
         ELSE IF r.has_content_clone = 0
         THEN [err |-> ERR_NONE, metadata |-> [r.metadata EXCEPT ![index].offset[RES_ORIG] = 0]]
         ELSE [err |-> ERR_NONE, metadata |-> r.metadata]

(***************************************************************************)
(* imgst_insert.c                                                          *)
(***************************************************************************)
Ret(err, hdr, md, f) == [err |-> err, header |-> hdr, metadata |-> md, file |-> f]

\* the scan for an empty slot: the lowest index with is_valid == 0, or
\* max_files when every slot is valid
\* variant: the scan returns the highest empty slot
FreeSlotLoop_highest_empty(index, hdr, md) ==
    IF \E i \in index..(hdr.max_files - 1) : md[i].is_valid = 0
    THEN CHOOSE i \in index..(hdr.max_files - 1) :
             /\ md[i].is_valid = 0
             /\ \A j \in index..(hdr.max_files - 1) : j > i => md[j].is_valid # 0
    ELSE hdr.max_files

RECURSIVE FreeSlotLoop(_, _, _)
FreeSlotLoop(index, hdr, md) ==
    IF index < hdr.max_files /\ md[index].is_valid # 0
    THEN FreeSlotLoop(index + 1, hdr, md)
    ELSE index

\* variant: the offset is taken after the content was written
InsertAppend_offset_after_write(index, md, f, image_buffer, fault) ==
    IF md[index].offset[RES_ORIG] = 0
    THEN IF fault = "fseek"
         THEN [err |-> ERR_IO, metadata |-> md, file |-> f]
         ELSE LET w == fwrite_end(f, image_buffer, fault)
                  md1 == [md EXCEPT ![index].offset[RES_ORIG] = ftell_end(w.file)]
              IN [err |-> IF w.ok THEN ERR_NONE ELSE ERR_IO, metadata |-> md1, file |-> w.file]
    ELSE [err |-> ERR_NONE, metadata |-> md, file |-> f]

\* variant: the offset is recorded and the content is not written
InsertAppend_without_write(index, md, f, image_buffer, fault) ==
    IF md[index].offset[RES_ORIG] = 0
    THEN IF fault = "fseek"
         THEN [err |-> ERR_IO, metadata |-> md, file |-> f]
         ELSE LET offset_endfile == ftell_end(f)
                  md1 == [md EXCEPT ![index].offset[RES_ORIG] = offset_endfile]
              IN [err |-> IF fault = "fwrite" THEN ERR_IO ELSE ERR_NONE,
                  metadata |-> md1, file |-> f]
    ELSE [err |-> ERR_NONE, metadata |-> md, file |-> f]

\* lines 47-67: append the content when the dedup left offset[RES_ORIG] at 0
InsertAppend(index, md, f, image_buffer, fault) ==
    IF md[index].offset[RES_ORIG] = 0
    THEN IF fault = "fseek"
         THEN [err |-> ERR_IO, metadata |-> md, file |-> f]
         ELSE LET offset_endfile == ftell_end(f)
                  md1 == [md EXCEPT ![index].offset[RES_ORIG] = offset_endfile]
                  w == fwrite_end(f, image_buffer, fault)
              IN [err |-> IF w.ok THEN ERR_NONE ELSE ERR_IO, metadata |-> md1, file |-> w.file]
    ELSE [err |-> ERR_NONE, metadata |-> md, file |-> f]

\* variant: a failed write of the header takes the increments back, the slot
\* stays valid
InsertCommit_uncounted_on_failure(index, hdr, md, f, image_buffer, fault) ==
    LET res == get_resolution(image_buffer) IN
    IF res.err # ERR_NONE
    THEN Ret(res.err, hdr, md, f)
    ELSE LET md1 == [md EXCEPT ![index].res_orig = <<res.width, res.height>>,
                               ![index].is_valid = NON_EMPTY,
                               ![index].size[RES_ORIG] = Len(image_buffer)]
             hdr1 == [hdr EXCEPT !.imgst_version = @ + 1, !.num_files = @ + 1]
             uh == updateHeader(hdr1, f, fault)
             um == updateMetadata(index, hdr1, md1, uh.file, fault)
         IN IF uh.err # ERR_NONE THEN Ret(uh.err, hdr, md1, f)
            ELSE Ret(um.err, hdr1, md1, um.file)

\* variant: the slot is persisted before the header
InsertCommit_slot_first(index, hdr, md, f, image_buffer, fault) ==
    LET res == get_resolution(image_buffer) IN
    IF res.err # ERR_NONE
    THEN Ret(res.err, hdr, md, f)
    ELSE LET md1 == [md EXCEPT ![index].res_orig = <<res.width, res.height>>,
                               ![index].is_valid = NON_EMPTY,
                               ![index].size[RES_ORIG] = Len(image_buffer)]
             hdr1 == [hdr EXCEPT !.imgst_version = @ + 1, !.num_files = @ + 1]
             um == updateMetadata(index, hdr1, md1, f, fault)
             uh == updateHeader(hdr1, um.file, fault)
         IN IF um.err # ERR_NONE THEN Ret(um.err, hdr1, md1, f)
            ELSE Ret(uh.err, hdr1, md1, uh.file)

\* lines 69-88: resolution, validity, size, header, persist header then slot
InsertCommit(index, hdr, md, f, image_buffer, fault) ==
    LET res == get_resolution(image_buffer) IN
    IF res.err # ERR_NONE
    THEN Ret(res.err, hdr, md, f)
    ELSE LET md1 == [md EXCEPT ![index].res_orig = <<res.width, res.height>>,
                               ![index].is_valid = NON_EMPTY,
                               ![index].size[RES_ORIG] = Len(image_buffer)]
             hdr1 == [hdr EXCEPT !.imgst_version = @ + 1, !.num_files = @ + 1]
             uh == updateHeader(hdr1, f, fault)
             um == updateMetadata(index, hdr1, md1, uh.file, fault)
         IN IF uh.err # ERR_NONE THEN Ret(uh.err, hdr1, md1, f)
            ELSE Ret(um.err, hdr1, md1, um.file)

\* variant: the content is decoded before it is appended
do_insert_decodes_first(image_buffer, img_id, hdr, md, f, fault) ==
    IF hdr.num_files >= hdr.max_files
    THEN Ret(ERR_FULL_IMGSTORE, hdr, md, f)
    ELSE LET index == FreeSlotLoop(0, hdr, md) IN
         IF index >= hdr.max_files
         THEN Ret("OUT_OF_BOUNDS", hdr, md, f)
         ELSE LET md1 == [md EXCEPT ![index].SHA = SHA256(image_buffer),
                                    ![index].img_id = img_id]
                  dd == do_name_and_content_dedup(hdr, md1, index)
                  ap == InsertAppend(index, dd.metadata, f, image_buffer, fault)
              IN IF dd.err # ERR_NONE THEN Ret(dd.err, hdr, dd.metadata, f)
                 ELSE IF get_resolution(image_buffer).err # ERR_NONE
                 THEN Ret(get_resolution(image_buffer).err, hdr, dd.metadata, f)
                 ELSE IF ap.err # ERR_NONE THEN Ret(ap.err, hdr, ap.metadata, ap.file)
                 ELSE InsertCommit(index, hdr, ap.metadata, ap.file, image_buffer, fault)

\* variant: the store counts as full when the scan finds no empty slot
do_insert_full_by_scan(image_buffer, img_id, hdr, md, f, fault) ==
    LET index == FreeSlotLoop(0, hdr, md) IN
    IF index >= hdr.max_files
    THEN Ret(ERR_FULL_IMGSTORE, hdr, md, f)
    ELSE LET md1 == [md EXCEPT ![index].SHA = SHA256(image_buffer),
                               ![index].img_id = img_id]
             dd == do_name_and_content_dedup(hdr, md1, index)
             ap == InsertAppend(index, dd.metadata, f, image_buffer, fault)
         IN IF dd.err # ERR_NONE THEN Ret(dd.err, hdr, dd.metadata, f)
            ELSE IF ap.err # ERR_NONE THEN Ret(ap.err, hdr, ap.metadata, ap.file)
            ELSE InsertCommit(index, hdr, ap.metadata, ap.file, image_buffer, fault)

do_insert(image_buffer, img_id, hdr, md, f, fault) ==
    IF hdr.num_files >= hdr.max_files
    THEN Ret(ERR_FULL_IMGSTORE, hdr, md, f)
    ELSE LET index == FreeSlotLoop(0, hdr, md) IN
         IF index >= hdr.max_files
         THEN Ret("OUT_OF_BOUNDS", hdr, md, f)
         ELSE LET md1 == [md EXCEPT ![index].SHA = SHA256(image_buffer),
                                    ![index].img_id = img_id]
                  dd == do_name_and_content_dedup(hdr, md1, index)
                  ap == InsertAppend(index, dd.metadata, f, image_buffer, fault)
              IN IF dd.err # ERR_NONE THEN Ret(dd.err, hdr, dd.metadata, f)
                 ELSE IF ap.err # ERR_NONE THEN Ret(ap.err, hdr, ap.metadata, ap.file)
                 ELSE InsertCommit(index, hdr, ap.metadata, ap.file, image_buffer, fault)

(***************************************************************************)
(* imgst_delete.c                                                          *)
(***************************************************************************)
\* variant: the header counts the deleted image as still present
do_delete_keeps_num_files(img_id, hdr, md, f, fault) ==
    IF hdr.num_files <= 0
    THEN Ret(ERR_FILE_NOT_FOUND, hdr, md, f)
    ELSE LET fi == findMetadataIndex(img_id, hdr, md) IN
         IF fi.err # ERR_NONE
         THEN Ret(fi.err, hdr, md, f)
         ELSE LET md1 == [md EXCEPT ![fi.idx].is_valid = EMPTY]
                  um == updateMetadata(fi.idx, hdr, md1, f, fault)
                  hdr1 == [hdr EXCEPT !.imgst_version = @ + 1]
                  uh == updateHeader(hdr1, um.file, fault)
              IN IF um.err # ERR_NONE THEN Ret(um.err, hdr, md1, f)
                 ELSE Ret(uh.err, hdr1, md1, uh.file)

\* variant: the result of the lookup is not checked, and the index keeps its
\* initial value when the id is not found
do_delete_ignores_lookup_error(img_id, hdr, md, f, fault) ==
    IF hdr.num_files <= 0
    THEN Ret(ERR_FILE_NOT_FOUND, hdr, md, f)
    ELSE LET fi == findMetadataIndex(img_id, hdr, md)
             md1 == [md EXCEPT ![fi.idx].is_valid = EMPTY]
             um == updateMetadata(fi.idx, hdr, md1, f, fault)
             hdr1 == [hdr EXCEPT !.num_files = @ - 1, !.imgst_version = @ + 1]
             uh == updateHeader(hdr1, um.file, fault)
         IN IF um.err # ERR_NONE THEN Ret(um.err, hdr, md1, f)
            ELSE Ret(uh.err, hdr1, md1, uh.file)

\* variant: the whole slot is zeroed
do_delete_zeroes_slot(img_id, hdr, md, f, fault) ==
    IF hdr.num_files <= 0
    THEN Ret(ERR_FILE_NOT_FOUND, hdr, md, f)
    ELSE LET fi == findMetadataIndex(img_id, hdr, md) IN
         IF fi.err # ERR_NONE
         THEN Ret(fi.err, hdr, md, f)
         ELSE LET md1 == [md EXCEPT ![fi.idx] = ZeroMetadata]
                  um == updateMetadata(fi.idx, hdr, md1, f, fault)
                  hdr1 == [hdr EXCEPT !.num_files = @ - 1, !.imgst_version = @ + 1]
                  uh == updateHeader(hdr1, um.file, fault)
              IN IF um.err # ERR_NONE THEN Ret(um.err, hdr, md1, f)
                 ELSE Ret(uh.err, hdr1, md1, uh.file)

do_delete(img_id, hdr, md, f, fault) ==
    IF hdr.num_files <= 0
    THEN Ret(ERR_FILE_NOT_FOUND, hdr, md, f)
    ELSE LET fi == findMetadataIndex(img_id, hdr, md) IN
         IF fi.err # ERR_NONE
         THEN Ret(fi.err, hdr, md, f)
         ELSE LET md1 == [md EXCEPT ![fi.idx].is_valid = EMPTY]
                  um == updateMetadata(fi.idx, hdr, md1, f, fault)
                  hdr1 == [hdr EXCEPT !.num_files = @ - 1, !.imgst_version = @ + 1]
                  uh == updateHeader(hdr1, um.file, fault)
              IN IF um.err # ERR_NONE THEN Ret(um.err, hdr, md1, f)
                 ELSE Ret(uh.err, hdr1, md1, uh.file)

(***************************************************************************)
(* image_content.c                                                         *)
(***************************************************************************)
\* variant: the new offset and size stay in memory
lazily_resize_memory_only(res_code, hdr, md, f, idx, fault) ==
    IF res_code = RES_ORIG
    THEN Ret(ERR_NONE, hdr, md, f)
    ELSE IF res_code # RES_SMALL /\ res_code # RES_THUMB
    THEN Ret(ERR_RESOLUTIONS, hdr, md, f)
    ELSE IF validMetadataIndex(idx, hdr, md) # ERR_NONE
    THEN Ret(validMetadataIndex(idx, hdr, md), hdr, md, f)
    ELSE IF md[idx].offset[res_code] # INIT_OFFSET
    THEN Ret(ERR_NONE, hdr, md, f)
    ELSE LET rd == fread_at(f, md[idx].offset[RES_ORIG], md[idx].size[RES_ORIG],
                            IF fault = "read_vips_fread" THEN "fread" ELSE "none") IN
         IF ~rd.ok THEN Ret(ERR_IO, hdr, md, f)
         ELSE IF ~IsJpeg(rd.bytes) THEN Ret(ERR_IMGLIB, hdr, md, f)
         ELSE LET original_image == vips_jpegload_buffer(rd.bytes)
                  ratio == shrink_value(original_image,
                                        hdr.res_resized[2 * res_code + 1],
                                        hdr.res_resized[2 * res_code + 2])
                  resized_image == vips_resize(original_image, ratio.num, ratio.den)
                  offset == ftell_end(f)
                  w == fwrite_end(f, vips_jpegsave_buffer(resized_image), fault)
                  md1 == [md EXCEPT ![idx].offset[res_code] = offset,
                                    ![idx].size[res_code] = Len(vips_jpegsave_buffer(resized_image))]
              IN IF ~w.ok THEN Ret(ERR_IO, hdr, md, w.file)
                 ELSE Ret(ERR_NONE, hdr, md1, w.file)

\* variant: a new variant counts as a change of the store
lazily_resize_counts_as_change(res_code, hdr, md, f, idx, fault) ==
    IF res_code = RES_ORIG
    THEN Ret(ERR_NONE, hdr, md, f)
    ELSE IF res_code # RES_SMALL /\ res_code # RES_THUMB
    THEN Ret(ERR_RESOLUTIONS, hdr, md, f)
    ELSE IF validMetadataIndex(idx, hdr, md) # ERR_NONE
    THEN Ret(validMetadataIndex(idx, hdr, md), hdr, md, f)
    ELSE IF md[idx].offset[res_code] # INIT_OFFSET
    THEN Ret(ERR_NONE, hdr, md, f)
    ELSE LET rd == fread_at(f, md[idx].offset[RES_ORIG], md[idx].size[RES_ORIG],
                            IF fault = "read_vips_fread" THEN "fread" ELSE "none") IN
         IF ~rd.ok THEN Ret(ERR_IO, hdr, md, f)
         ELSE IF ~IsJpeg(rd.bytes) THEN Ret(ERR_IMGLIB, hdr, md, f)
         ELSE LET original_image == vips_jpegload_buffer(rd.bytes)
                  ratio == shrink_value(original_image,
                                        hdr.res_resized[2 * res_code + 1],
                                        hdr.res_resized[2 * res_code + 2])
                  resized_image == vips_resize(original_image, ratio.num, ratio.den)
                  offset == ftell_end(f)
                  w == fwrite_end(f, vips_jpegsave_buffer(resized_image), fault)
                  md1 == [md EXCEPT ![idx].offset[res_code] = offset,
                                    ![idx].size[res_code] = Len(vips_jpegsave_buffer(resized_image))]
                  um == updateMetadata(idx, hdr, md1, w.file, fault)
              IN IF ~w.ok THEN Ret(ERR_IO, hdr, md, w.file)
                 ELSE Ret(um.err, [hdr EXCEPT !.imgst_version = @ + 1], md1, um.file)

lazily_resize(res_code, hdr, md, f, idx, fault) ==
    IF res_code = RES_ORIG
    THEN Ret(ERR_NONE, hdr, md, f)
    ELSE IF res_code # RES_SMALL /\ res_code # RES_THUMB
    THEN Ret(ERR_RESOLUTIONS, hdr, md, f)
    ELSE IF validMetadataIndex(idx, hdr, md) # ERR_NONE
    THEN Ret(validMetadataIndex(idx, hdr, md), hdr, md, f)
    ELSE IF md[idx].offset[res_code] # INIT_OFFSET
    THEN Ret(ERR_NONE, hdr, md, f)
    ELSE LET rd == fread_at(f, md[idx].offset[RES_ORIG], md[idx].size[RES_ORIG],
                            IF fault = "read_vips_fread" THEN "fread" ELSE "none") IN
         IF ~rd.ok THEN Ret(ERR_IO, hdr, md, f)
         ELSE IF ~IsJpeg(rd.bytes) THEN Ret(ERR_IMGLIB, hdr, md, f)
         ELSE LET original_image == vips_jpegload_buffer(rd.bytes)
                  ratio == shrink_value(original_image,
                                        hdr.res_resized[2 * res_code + 1],
                                        hdr.res_resized[2 * res_code + 2])
                  resized_image == vips_resize(original_image, ratio.num, ratio.den)
                  offset == ftell_end(f)
                  w == fwrite_end(f, vips_jpegsave_buffer(resized_image), fault)
                  md1 == [md EXCEPT ![idx].offset[res_code] = offset,
                                    ![idx].size[res_code] = Len(vips_jpegsave_buffer(resized_image))]
                  um == updateMetadata(idx, hdr, md1, w.file, fault)
              IN IF ~w.ok THEN Ret(ERR_IO, hdr, md, w.file)
                 ELSE Ret(um.err, hdr, md1, um.file)

(***************************************************************************)
(* imgst_read.c                                                            *)
(***************************************************************************)
RetRead(err, bytes, hdr, md, f) ==
    [err |-> err, bytes |-> bytes, header |-> hdr, metadata |-> md, file |-> f]

\* variant: the variant is resized again on every read
do_read_always_resize(img_id, resolution, hdr, md, f, fault) ==
    IF resolution # RES_SMALL /\ resolution # RES_THUMB /\ resolution # RES_ORIG
    THEN RetRead(ERR_RESOLUTIONS, NoBytes, hdr, md, f)
    ELSE LET fi == findMetadataIndex(img_id, hdr, md) IN
         IF fi.err # ERR_NONE
         THEN RetRead(fi.err, NoBytes, hdr, md, f)
         ELSE LET md0 == IF resolution = RES_ORIG THEN md
                         ELSE [md EXCEPT ![fi.idx].offset[resolution] = INIT_OFFSET]
                  lz == lazily_resize(resolution, hdr, md0, f, fi.idx, fault)
                  image_size == lz.metadata[fi.idx].size[resolution]
                  rd == fread_at(lz.file, lz.metadata[fi.idx].offset[resolution], image_size, fault)
              IN IF lz.err # ERR_NONE
                 THEN RetRead(lz.err, NoBytes, lz.header, lz.metadata, lz.file)
                 ELSE IF ~rd.ok
                 THEN RetRead(ERR_IO, NoBytes, lz.header, lz.metadata, lz.file)
                 ELSE RetRead(ERR_NONE, rd.bytes, lz.header, lz.metadata, lz.file)

do_read(img_id, resolution, hdr, md, f, fault) ==
    IF resolution # RES_SMALL /\ resolution # RES_THUMB /\ resolution # RES_ORIG
    THEN RetRead(ERR_RESOLUTIONS, NoBytes, hdr, md, f)
    ELSE LET fi == findMetadataIndex(img_id, hdr, md) IN
         IF fi.err # ERR_NONE
         THEN RetRead(fi.err, NoBytes, hdr, md, f)
         ELSE LET lz == IF md[fi.idx].offset[resolution] = INIT_OFFSET
                        THEN lazily_resize(resolution, hdr, md, f, fi.idx, fault)
                        ELSE Ret(ERR_NONE, hdr, md, f)
                  image_size == lz.metadata[fi.idx].size[resolution]
                  rd == fread_at(lz.file, lz.metadata[fi.idx].offset[resolution], image_size, fault)
              IN IF lz.err # ERR_NONE
                 THEN RetRead(lz.err, NoBytes, lz.header, lz.metadata, lz.file)
                 ELSE IF ~rd.ok
                 THEN RetRead(ERR_IO, NoBytes, lz.header, lz.metadata, lz.file)
                 ELSE RetRead(ERR_NONE, rd.bytes, lz.header, lz.metadata, lz.file)

(***************************************************************************)
(* State machine: one handle, opened with "rb+", on a store created with   *)
(* 1..MaxFiles slots and the default target resolutions.  `last` records   *)
(* the last call and what it returned; `inserted` records, per id, the     *)
(* content of the last                                                     *)
(* successful insert under that id, until a delete of that id.             *)
(***************************************************************************)
NoCall == [op |-> "none", img_id |-> NoId, resolution |-> RES_ORIG, content |-> NoBytes,
           err |-> ERR_NONE, bytes |-> NoBytes]

Init ==
    \E max_files \in 1..MaxFiles :
    LET c == do_create(max_files, <<DEF_RES_THUMB, DEF_RES_THUMB, DEF_RES_SMALL, DEF_RES_SMALL>>, "none") IN
    /\ header = c.header
    /\ metadata = c.metadata
    /\ file = c.file
    /\ ptr = OpenRefs("rb+")
    /\ last = NoCall
    /\ inserted = [id \in Ids |-> NoBytes]
    /\ faults = 0

\* do_insert on a store whose version is below max_version
InsertUpTo(image_buffer, img_id, fault, max_version) ==
    \E r \in {do_insert(image_buffer, img_id, header, metadata, file, fault)} :
    /\ header.imgst_version < max_version
    /\ Len(file.heap) + Len(image_buffer) <= MaxHeapLen
    /\ header' = r.header
    /\ metadata' = r.metadata
    /\ file' = r.file
    /\ last' = [op |-> "insert", img_id |-> img_id, resolution |-> RES_ORIG,
                content |-> image_buffer, err |-> r.err, bytes |-> NoBytes]
    /\ inserted' = IF r.err = ERR_NONE THEN [inserted EXCEPT ![img_id] = image_buffer]
                   ELSE inserted
    /\ UNCHANGED ptr

Insert(image_buffer, img_id, fault) == InsertUpTo(image_buffer, img_id, fault, MaxVersion)

\* do_delete on a store whose version is below max_version
DeleteUpTo(img_id, fault, max_version) ==
    \E r \in {do_delete(img_id, header, metadata, file, fault)} :
    /\ header.imgst_version < max_version
    /\ header' = r.header
    /\ metadata' = r.metadata
    /\ file' = r.file
    /\ last' = [op |-> "delete", img_id |-> img_id, resolution |-> RES_ORIG,
                content |-> NoBytes, err |-> r.err, bytes |-> NoBytes]
    /\ inserted' = IF r.err # ERR_FILE_NOT_FOUND THEN [inserted EXCEPT ![img_id] = NoBytes]
                   ELSE inserted
    /\ UNCHANGED ptr

Delete(img_id, fault) == DeleteUpTo(img_id, fault, MaxVersion)

Read(img_id, resolution, fault) ==
    \E r \in {do_read(img_id, resolution, header, metadata, file, fault)} :
    /\ Len(file.heap) + 2 <= MaxHeapLen
    /\ header' = r.header
    /\ metadata' = r.metadata
    /\ file' = r.file
    /\ last' = [op |-> "read", img_id |-> img_id, resolution |-> resolution,
                content |-> NoBytes, err |-> r.err, bytes |-> r.bytes]
    /\ UNCHANGED <<inserted, ptr>>

\* do_close followed by do_open of the same file
Reopen ==
    \E r \in {do_open("rb+", do_close(ptr, metadata, file).ptr, header,
                       do_close(ptr, metadata, file).metadata,
                       do_close(ptr, metadata, file).file, "none")} :
    /\ header' = r.header
    /\ metadata' = r.metadata
    /\ ptr' = r.ptr
    /\ file' = do_close(ptr, metadata, file).file
    /\ last' = [op |-> "reopen", img_id |-> NoId, resolution |-> RES_ORIG,
                content |-> NoBytes, err |-> r.err, bytes |-> NoBytes]
    /\ UNCHANGED inserted

\* a call without a failing library call, or with one while the budget lasts
Injected(fault) ==
    /\ fault # "none" => faults < MaxFaults
    /\ faults' = IF fault = "none" THEN faults ELSE faults + 1

\* the calls when no library call fails
Next ==
    \/ \E c \in Contents, id \in Ids : Insert(c, id, "none") /\ Injected("none")
    \/ \E id \in Ids : Delete(id, "none") /\ Injected("none")
    \/ \E id \in Ids, res \in Resolutions : Read(id, res, "none") /\ Injected("none")
    \/ Reopen /\ Injected("none")

Spec == Init /\ [][Next]_vars

\* the calls when a library call may fail
NextFault ==
    \/ \E c \in FaultContents, id \in Ids, fault \in InsertFaults \cup {"none"} :
          Insert(c, id, fault) /\ Injected(fault)
    \/ \E id \in Ids, fault \in DeleteFaults \cup {"none"} :
          Delete(id, fault) /\ Injected(fault)
    \/ \E id \in Ids, fault \in OrigReadFaults \cup {"none"} :
          Read(id, RES_ORIG, fault) /\ Injected(fault)

SpecFault == Init /\ [][NextFault]_vars

(***************************************************************************)
(* Properties.                                                             *)
(***************************************************************************)
Slots == DOMAIN metadata

Valid(md, i) == md[i].is_valid # EMPTY

NumValid(md) == Cardinality({i \in DOMAIN md : Valid(md, i)})

\* the slot a call of do_insert fills in the current state
InsertIndex == FreeSlotLoop(0, header, metadata)

\* what do_read returns in the current state when no library call fails
ReadNow(img_id, resolution) == do_read(img_id, resolution, header, metadata, file, "none")

\* the same, in the state a step leads to
ReadNext(img_id, resolution) == do_read(img_id, resolution, header', metadata', file', "none")

\* the encoded variant the image library derives from a content
VariantOf(content, resolution) ==
    IF resolution = RES_ORIG THEN content
    ELSE LET image == vips_jpegload_buffer(content)
             ratio == shrink_value(image, header.res_resized[2 * resolution + 1],
                                   header.res_resized[2 * resolution + 2])
         IN vips_jpegsave_buffer(vips_resize(image, ratio.num, ratio.den))

\* C1: round trip.  A successful do_read(id, ORIGINAL) returns exactly the
\* content of the last successful insert under id, and as long as id has
\* not been deleted a read on which no library call fails succeeds with it,
\* whatever was inserted, deleted or read in between.
C1_RoundTrip ==
    /\ (last.op = "read" /\ last.resolution = RES_ORIG /\ last.err = ERR_NONE
         /\ inserted[last.img_id] # NoBytes)
        => last.bytes = inserted[last.img_id]
    /\ \A id \in Ids : inserted[id] # NoBytes =>
          /\ ReadNow(id, RES_ORIG).err = ERR_NONE
          /\ ReadNow(id, RES_ORIG).bytes = inserted[id]

C1_Witness ==
    /\ last.op = "read" /\ last.resolution = RES_ORIG /\ last.err = ERR_NONE
    /\ inserted[last.img_id] # NoBytes
    /\ last.bytes = inserted[last.img_id]
    /\ header.imgst_version >= 3

\* C2: num_files <= max_files and num_files is the number of valid slots,
\* in every state, after successful and failing calls alike.
C2_NumFilesExact ==
    /\ header.num_files <= header.max_files
    /\ header.num_files = NumValid(metadata)

\* C3: no two distinct valid slots hold the same img_id.
C3_IdUnique ==
    \A i \in Slots, j \in Slots :
        (i # j /\ Valid(metadata, i) /\ Valid(metadata, j))
        => metadata[i].img_id # metadata[j].img_id

C3_Witness ==
    /\ NumValid(metadata) = 2
    /\ last.op = "insert" /\ last.err = ERR_NONE
    /\ \E i \in Slots : metadata[i].img_id = last.img_id /\ Valid(metadata, i)

\* C4: two valid slots with equal content hash have identical offset and
\* size for every variant that is materialized in both.
C4_SharedStorage ==
    \A i \in Slots, j \in Slots :
        (i # j /\ Valid(metadata, i) /\ Valid(metadata, j)
         /\ shaCompare(metadata[i].SHA, metadata[j].SHA) = 0)
        => \A r \in Resolutions :
             (metadata[i].offset[r] # 0 /\ metadata[j].offset[r] # 0)
             => /\ metadata[i].offset[r] = metadata[j].offset[r]
                /\ metadata[i].size[r] = metadata[j].size[r]

\* C5: every valid slot has offset[RES_ORIG] # 0, whether its insert
\* appended the bytes or aliased another slot.
C5_OrigOffsetSet ==
    \A i \in Slots : Valid(metadata, i) => metadata[i].offset[RES_ORIG] # 0

C5_Witness ==
    \E i \in Slots, j \in Slots :
        /\ i # j /\ Valid(metadata, i) /\ Valid(metadata, j)
        /\ metadata[i].offset[RES_ORIG] = metadata[j].offset[RES_ORIG]
        /\ metadata[i].offset[RES_ORIG] # 0
        /\ last.op = "insert" /\ last.err = ERR_NONE

\* C6: a successful do_read(id, THUMBNAIL or SMALL) returns the resized
\* encoding of the content inserted under id, and a successful insert of
\* content with no hash match among the valid slots leaves the new slot's
\* THUMBNAIL and SMALL offsets at 0.
C6_VariantsOfOwnContent ==
    [][ /\ (last'.op = "read" /\ last'.resolution # RES_ORIG /\ last'.err = ERR_NONE
             /\ inserted[last'.img_id] # NoBytes)
            => last'.bytes = VariantOf(inserted[last'.img_id], last'.resolution)
        /\ (last'.op = "insert" /\ last'.err = ERR_NONE
             /\ \A i \in Slots : Valid(metadata, i) => metadata[i].SHA # SHA256(last'.content))
            => /\ metadata'[InsertIndex].offset[RES_THUMB] = 0
               /\ metadata'[InsertIndex].offset[RES_SMALL] = 0 ]_vars

\* C7: content dedup.  When content C is held under a valid id X and the
\* same bytes are inserted under another id Y, the slot of Y records the
\* ORIGINAL offset of the slot of X and both ids read back identical bytes;
\* a delete of X leaves every other slot and the heap as they were, so a
\* read of Y still returns the same bytes.
C7_ContentDedup ==
    [][ /\ (last'.op = "insert" /\ last'.err = ERR_NONE) =>
              \A i \in Slots :
                  (Valid(metadata, i) /\ inserted[metadata[i].img_id] = last'.content)
                  => /\ metadata'[InsertIndex].offset[RES_ORIG] = metadata'[i].offset[RES_ORIG]
                     /\ metadata'[i].offset[RES_ORIG] = metadata[i].offset[RES_ORIG]
                     /\ ReadNext(last'.img_id, RES_ORIG).bytes = ReadNext(metadata[i].img_id, RES_ORIG).bytes
                     /\ ReadNext(last'.img_id, RES_ORIG).bytes = last'.content
        /\ (last'.op = "delete") =>
              \A id \in Ids \ {last'.img_id} :
                  (ReadNow(id, RES_ORIG).err = ERR_NONE)
                  => /\ ReadNext(id, RES_ORIG).err = ERR_NONE
                     /\ ReadNext(id, RES_ORIG).bytes = ReadNow(id, RES_ORIG).bytes
                     /\ findMetadataIndex(id, header', metadata') = findMetadataIndex(id, header, metadata) ]_vars

C7_Witness ==
    /\ last.op = "delete" /\ last.err = ERR_NONE
    /\ \E i \in Slots, j \in Slots :
          /\ i # j /\ ~Valid(metadata, i) /\ Valid(metadata, j)
          /\ metadata[i].img_id = last.img_id
          /\ metadata[i].offset[RES_ORIG] = metadata[j].offset[RES_ORIG]
          /\ metadata[i].SHA = metadata[j].SHA
          /\ ReadNow(metadata[j].img_id, RES_ORIG).err = ERR_NONE
          /\ ReadNow(metadata[j].img_id, RES_ORIG).bytes = inserted[metadata[j].img_id]

\* C8: name collision.  When a valid slot holds the id and the store is not
\* full, do_insert with that id fails with ERR_DUPLICATE_ID whatever the
\* content, and num_files and imgst_version are unchanged.
C8_NameCollision ==
    [][ (/\ last'.op = "insert"
         /\ header.num_files < header.max_files
         /\ \E i \in Slots : Valid(metadata, i) /\ metadata[i].img_id = last'.img_id)
        => /\ last'.err = ERR_DUPLICATE_ID
           /\ header'.num_files = header.num_files
           /\ header'.imgst_version = header.imgst_version ]_vars

C8_Witness ==
    /\ last.op = "insert" /\ last.err = ERR_DUPLICATE_ID
    /\ \E i \in Slots :
          /\ Valid(metadata, i) /\ metadata[i].img_id = last.img_id
          /\ inserted[last.img_id] # NoBytes
          /\ inserted[last.img_id] # last.content

\* C9: an insert that fails with ERR_DUPLICATE_ID leaves the slot table in
\* memory (every field of every slot), the header in memory and the file
\* exactly as they were.
C9_DuplicateNoMutation ==
    [][ (last'.op = "insert" /\ last'.err = ERR_DUPLICATE_ID)
        => /\ metadata' = metadata
           /\ header' = header
           /\ file' = file ]_vars

\* C10: when do_insert returns an error, no slot that was invalid before
\* the call is valid afterwards, in memory or in the file, and num_files
\* in memory is unchanged.
C10_NoHalfWrittenEntry ==
    [][ (last'.op = "insert" /\ last'.err # ERR_NONE)
        => /\ \A i \in Slots : ~Valid(metadata, i) => ~Valid(metadata', i)
           /\ \A i \in Slots : ~Valid(file.metadata, i) => ~Valid(file'.metadata, i)
           /\ header'.num_files = header.num_files ]_vars

\* C11: capacity.  Whenever num_files >= max_files, do_insert fails with
\* ERR_FULL_IMGSTORE for every id and content, also for an id the store
\* holds and also when a slot is empty, and leaves the header, every slot
\* and the file as they were; a store of one slot rejects the second insert
\* with num_files staying 1.
C11_Capacity ==
    [][ (last'.op = "insert" /\ header.num_files >= header.max_files)
        => /\ last'.err = ERR_FULL_IMGSTORE
           /\ header' = header
           /\ metadata' = metadata
           /\ file' = file ]_vars

C11_Witness ==
    /\ last.op = "insert" /\ last.err = ERR_FULL_IMGSTORE
    /\ header.max_files = 1 /\ header.num_files = 1
    /\ inserted[last.img_id] = NoBytes
    /\ \E id \in Ids : inserted[id] # NoBytes

\* C12: delete and reuse.  After a successful do_delete(id) the id was valid
\* before and findMetadataIndex(id) no longer finds it, num_files is one
\* less, and the slot is empty; a successful insert of another id that
\* follows, when the freed slot is the lowest empty one, occupies it.
C12_DeleteReuse ==
    [][ /\ (last'.op = "delete" /\ last'.err = ERR_NONE)
            => /\ findMetadataIndex(last'.img_id, header, metadata).err = ERR_NONE
               /\ findMetadataIndex(last'.img_id, header', metadata').err = ERR_FILE_NOT_FOUND
               /\ header'.num_files = header.num_files - 1
               /\ ~Valid(metadata', findMetadataIndex(last'.img_id, header, metadata).idx)
        /\ (/\ last.op = "delete" /\ last.err = ERR_NONE
            /\ last'.op = "insert" /\ last'.err = ERR_NONE
            /\ last'.img_id # last.img_id
            /\ metadata[InsertIndex].img_id = last.img_id)
            => /\ Valid(metadata', InsertIndex)
               /\ metadata'[InsertIndex].img_id = last'.img_id ]_vars

\* an insert, a delete and an insert, all successful: the third call has
\* filled slot 0 again
C12_Witness ==
    /\ last.op = "insert" /\ last.err = ERR_NONE
    /\ faults = 0
    /\ header.imgst_version = 3 /\ header.num_files = 1
    /\ Valid(metadata, 0) /\ metadata[0].img_id = last.img_id
    /\ \A id \in Ids \ {last.img_id} : inserted[id] = NoBytes

\* C13: free-slot allocation.  A successful do_insert fills the lowest-index
\* slot whose is_valid flag was clear before the call, and changes the valid
\* flag of no other slot.
C13_LowestFreeSlot ==
    [][ (last'.op = "insert" /\ last'.err = ERR_NONE)
        => /\ \E i \in Slots : ~Valid(metadata, i)
           /\ \A i \in Slots :
                IF ~Valid(metadata, i) /\ \A j \in Slots : j < i => Valid(metadata, j)
                THEN /\ Valid(metadata', i)
                     /\ metadata'[i].img_id = last'.img_id
                     /\ metadata'[i].SHA = SHA256(last'.content)
                ELSE metadata'[i].is_valid = metadata[i].is_valid ]_vars

C13_Witness ==
    /\ last.op = "insert" /\ last.err = ERR_NONE
    /\ header.max_files = 2
    /\ Valid(metadata, 0) /\ metadata[0].img_id # last.img_id
    /\ Valid(metadata, 1) /\ metadata[1].img_id = last.img_id
    /\ metadata[1].SHA = SHA256(last.content)

\* C14: write-once variant cache.  Once a THUMBNAIL or SMALL variant of a
\* valid slot has a non-zero offset, no call changes that slot's offset or
\* size for the variant while the slot stays valid; a read of a variant that
\* follows a successful read of the same id and variant returns the same
\* bytes and leaves the slot table and the file as they were.
C14_WriteOnceVariant ==
    [][ /\ \A i \in Slots : \A r \in {RES_THUMB, RES_SMALL} :
              (Valid(metadata, i) /\ Valid(metadata', i) /\ metadata[i].offset[r] # INIT_OFFSET)
              => /\ metadata'[i].offset[r] = metadata[i].offset[r]
                 /\ metadata'[i].size[r] = metadata[i].size[r]
        /\ (/\ last.op = "read" /\ last.err = ERR_NONE /\ last.resolution # RES_ORIG
            /\ last'.op = "read" /\ last'.img_id = last.img_id
            /\ last'.resolution = last.resolution)
            => /\ last'.err = ERR_NONE
               /\ last'.bytes = last.bytes
               /\ metadata' = metadata
               /\ file' = file ]_vars

\* a SMALL variant that outlived a delete of another id
C14_Witness ==
    /\ last.op = "delete" /\ last.err = ERR_NONE
    /\ \E i \in Slots :
          /\ Valid(metadata, i) /\ metadata[i].img_id # last.img_id
          /\ metadata[i].offset[RES_SMALL] # INIT_OFFSET
          /\ ReadNow(metadata[i].img_id, RES_SMALL).err = ERR_NONE
          /\ ReadNow(metadata[i].img_id, RES_SMALL).file = file

\* C15: cache miss.  do_read(id, THUMBNAIL or SMALL) on a valid slot whose
\* offset for the variant is 0 succeeds, appends the bytes it returns at the
\* end of the file, records in the slot the file length before the append
\* as offset and the appended length as size, and writes that slot to the
\* file; the header and the other slots are as before.
C15_CacheMiss ==
    [][ (/\ last'.op = "read" /\ last'.resolution # RES_ORIG
         /\ findMetadataIndex(last'.img_id, header, metadata).err = ERR_NONE
         /\ metadata[findMetadataIndex(last'.img_id, header, metadata).idx]
                .offset[last'.resolution] = INIT_OFFSET)
        => LET idx == findMetadataIndex(last'.img_id, header, metadata).idx
               r == last'.resolution
           IN /\ last'.err = ERR_NONE
              /\ Len(last'.bytes) > 0
              /\ file'.heap = file.heap \o last'.bytes
              /\ metadata'[idx].offset[r]
                    = SizeofHeader + header.max_files * SizeofMetadata + Len(file.heap)
              /\ metadata'[idx].size[r] = Len(last'.bytes)
              /\ file'.metadata[idx] = metadata'[idx]
              /\ \A i \in Slots \ {idx} : metadata'[i] = metadata[i]
              /\ header' = header /\ file'.header = file.header ]_vars

\* the variant returned by the last read is the last range of the file
C15_Witness ==
    /\ last.op = "read" /\ last.resolution = RES_THUMB /\ last.err = ERR_NONE
    /\ \E i \in Slots :
          /\ Valid(metadata, i) /\ metadata[i].img_id = last.img_id
          /\ metadata[i].offset[RES_THUMB] + metadata[i].size[RES_THUMB] = ftell_end(file)
          /\ file.metadata[i] = metadata[i]
          /\ last.bytes = VariantOf(inserted[last.img_id], RES_THUMB)

\* C16: aliasing insert.  A successful do_insert of content whose hash equals
\* the hash of a valid slot gives the new slot the offset and size table
\* (all three variants) of such a slot and writes nothing to the heap: the
\* file differs only in the header and in the new slot.
C16_AliasingInsert ==
    [][ (/\ last'.op = "insert" /\ last'.err = ERR_NONE
         /\ \E i \in Slots : /\ Valid(metadata, i)
                             /\ shaCompare(metadata[i].SHA, SHA256(last'.content)) = 0)
        => /\ \E i \in Slots :
                /\ Valid(metadata, i)
                /\ shaCompare(metadata[i].SHA, SHA256(last'.content)) = 0
                /\ metadata'[InsertIndex].offset = metadata[i].offset
                /\ metadata'[InsertIndex].size = metadata[i].size
           /\ file'.heap = file.heap
           /\ \A j \in Slots \ {InsertIndex} : file'.metadata[j] = file.metadata[j]
           /\ file'.metadata[InsertIndex] = metadata'[InsertIndex]
           /\ file'.header = header' ]_vars

\* the alias took over a materialized THUMBNAIL together with the original
C16_Witness ==
    /\ last.op = "insert" /\ last.err = ERR_NONE
    /\ \E i \in Slots, j \in Slots :
          /\ i # j /\ Valid(metadata, i) /\ Valid(metadata, j)
          /\ metadata[j].img_id = last.img_id
          /\ metadata[j].offset = metadata[i].offset
          /\ metadata[j].size = metadata[i].size
          /\ metadata[j].offset[RES_THUMB] # INIT_OFFSET
          /\ Len(file.heap) = 2 * Len(last.content)

\* every offset recorded in a slot, in memory or in the file
RecordedOffsets ==
    {metadata[k].offset[q] : k \in Slots, q \in Resolutions}
        \cup {file.metadata[k].offset[q] : k \in Slots, q \in Resolutions}

\* C17: the heap is append-only.  No call shortens the heap or changes a byte
\* written before; when a call appends, the new range starts at the former
\* end of the file, beyond every offset recorded before, and an offset a
\* call records is that position or an offset recorded before.
C17_HeapAppendOnly ==
    [][ /\ Len(file'.heap) >= Len(file.heap)
        /\ SubSeq(file'.heap, 1, Len(file.heap)) = file.heap
        /\ DOMAIN file'.metadata = DOMAIN file.metadata
        /\ Len(file'.heap) > Len(file.heap)
            => \A o \in RecordedOffsets : o < ftell_end(file)
        /\ \A i \in Slots : \A r \in Resolutions :
              \/ metadata'[i].offset[r] \in RecordedOffsets \cup {INIT_OFFSET}
              \/ /\ metadata'[i].offset[r] = ftell_end(file)
                 /\ Len(file'.heap) > Len(file.heap) ]_vars

\* three ranges were appended and the first one still reads back
C17_Witness ==
    /\ last.op = "read" /\ last.resolution # RES_ORIG /\ last.err = ERR_NONE
    /\ Len(file.heap) = 3 * Len(last.bytes)
    /\ \E i \in Slots :
          /\ Valid(metadata, i)
          /\ metadata[i].offset[RES_ORIG] = HeapStart(file)
          /\ ReadNow(metadata[i].img_id, RES_ORIG).bytes = inserted[metadata[i].img_id]

\* C18: the header version.  imgst_version never decreases; a successful
\* do_insert and a successful do_delete increase it by exactly 1; a failed
\* insert, a failed delete and any read leave it unchanged.
C18_VersionBump ==
    [][ /\ header'.imgst_version >= header.imgst_version
        /\ (last'.op \in {"insert", "delete"} /\ last'.err = ERR_NONE)
            => header'.imgst_version = header.imgst_version + 1
        /\ (last'.op \in {"insert", "delete"} /\ last'.err # ERR_NONE)
            => header'.imgst_version = header.imgst_version
        /\ last'.op = "read" => header'.imgst_version = header.imgst_version ]_vars

\* C19: the mirror in memory equals the file.  Whenever the most recent call
\* returned success, the header in memory and every slot in memory, valid
\* or empty, equal the header and the slots stored in the file.
C19_MirrorEqualsDisk ==
    last.err = ERR_NONE => (header = file.header /\ metadata = file.metadata)

\* C20: persistence across sessions.  do_close followed by do_open succeeds
\* and gives a handle with the same header and, for every slot that was
\* valid, the same id, hash, dimensions, offsets and sizes; a slot that was
\* empty is empty in the new handle, and the file is as it was.
C20_PersistsAcrossReopen ==
    [][ last'.op = "reopen"
        => /\ last'.err = ERR_NONE
           /\ header' = header
           /\ \A i \in Slots : Valid(metadata, i) => metadata'[i] = metadata[i]
           /\ \A i \in Slots : ~Valid(metadata, i) => ~Valid(metadata', i)
           /\ DOMAIN metadata' = DOMAIN metadata
           /\ file' = file ]_vars

\* reopened after an insert, a delete and the materialization of a variant
C20_Witness ==
    /\ last.op = "reopen" /\ last.err = ERR_NONE
    /\ header.imgst_version = 3 /\ header.num_files = 1
    /\ \E i \in Slots :
          /\ Valid(metadata, i)
          /\ metadata[i].offset[RES_THUMB] # INIT_OFFSET
          /\ ReadNow(metadata[i].img_id, RES_THUMB).err = ERR_NONE
          /\ ReadNow(metadata[i].img_id, RES_ORIG).bytes = inserted[metadata[i].img_id]


(***************************************************************************)
(* Crashes.  The process stops between the two persists of a call, so the  *)
(* file keeps what was written so far and the handle is lost; the store is *)
(* then opened again from the file.                                        *)
(***************************************************************************)
\* do_insert stopped after updateHeader and before updateMetadata
CrashInsert(image_buffer, img_id) ==
    \E r \in {do_insert(image_buffer, img_id, header, metadata, file, "updateMetadata")} :
    /\ header.imgst_version < MaxVersion
    /\ Len(file.heap) + Len(image_buffer) <= MaxHeapLen
    /\ r.err = ERR_IO
    /\ file' = r.file
    /\ header' = do_open("rb+", NullRefs, r.header, NoTable, r.file, "none").header
    /\ metadata' = do_open("rb+", NullRefs, r.header, NoTable, r.file, "none").metadata
    /\ ptr' = do_open("rb+", NullRefs, r.header, NoTable, r.file, "none").ptr
    /\ last' = [op |-> "crash", img_id |-> img_id, resolution |-> RES_ORIG,
                content |-> image_buffer, err |-> do_open("rb+", NullRefs, r.header, NoTable, r.file, "none").err, bytes |-> NoBytes]
    /\ inserted' = [inserted EXCEPT ![img_id] = NoBytes]

\* do_delete stopped after updateMetadata and before updateHeader
CrashDelete(img_id) ==
    \E r \in {do_delete(img_id, header, metadata, file, "updateHeader")} :
    /\ header.imgst_version < MaxVersion
    /\ r.err = ERR_IO
    /\ file' = r.file
    /\ header' = do_open("rb+", NullRefs, r.header, NoTable, r.file, "none").header
    /\ metadata' = do_open("rb+", NullRefs, r.header, NoTable, r.file, "none").metadata
    /\ ptr' = do_open("rb+", NullRefs, r.header, NoTable, r.file, "none").ptr
    /\ last' = [op |-> "crash", img_id |-> img_id, resolution |-> RES_ORIG,
                content |-> NoBytes, err |-> do_open("rb+", NullRefs, r.header, NoTable, r.file, "none").err, bytes |-> NoBytes]
    /\ inserted' = [inserted EXCEPT ![img_id] = NoBytes]

\* the calls when the process may stop once between two persists
NextCrash ==
    \/ \E c \in FaultContents, id \in Ids : Insert(c, id, "none") /\ Injected("none")
    \/ \E id \in Ids : Delete(id, "none") /\ Injected("none")
    \/ \E id \in Ids : Read(id, RES_ORIG, "none") /\ Injected("none")
    \/ \E c \in FaultContents, id \in Ids : CrashInsert(c, id) /\ Injected("crash")
    \/ \E id \in Ids : CrashDelete(id) /\ Injected("crash")

SpecCrash == Init /\ [][NextCrash]_vars

\* C21: after a crash between the header persist and the slot persist of an
\* insert or delete, and the reopening of the file, one further successful
\* insert or delete makes num_files in the file equal to the number of valid
\* slots in the file again.
C21_CrashRepaired ==
    [][(/\ last.op = "crash"
        /\ last'.op \in {"insert", "delete"}
        /\ last'.err = ERR_NONE)
       => file'.header.num_files = NumValid(file'.metadata)]_vars


(***************************************************************************)
(* Life of a handle.  The store file is as do_create left it: complete,    *)
(* with the handle do_create returns, or cut after the header and some of  *)
(* the slots when the process stopped during the loop of do_create, with   *)
(* no handle.  The handle is then closed and opened; calls that write need *)
(* a handle opened with "rb+".                                             *)
(***************************************************************************)
OpenModes == {"rb", "rb+", "wb"}
OpenFaults == {"fopen", "calloc"}

DefaultResolutions == <<DEF_RES_THUMB, DEF_RES_THUMB, DEF_RES_SMALL, DEF_RES_SMALL>>

\* what the file holds when only its first n slots were written
CutAfter(f, n) ==
    [f EXCEPT !.metadata = [i \in (0..(n - 1)) \cap DOMAIN f.metadata |-> f.metadata[i]]]

InitLife ==
    \E max_files \in 1..MaxFiles, n \in 0..MaxFiles :
    LET c == do_create(max_files, DefaultResolutions, "none") IN
    /\ n <= max_files
    /\ header = c.header
    /\ metadata = IF n = max_files THEN c.metadata ELSE NoTable
    /\ ptr = IF n = max_files THEN c.ptr ELSE NullRefs
    /\ file = CutAfter(c.file, n)
    /\ last = [op |-> IF n = max_files THEN "create" ELSE "crash", img_id |-> NoId,
               resolution |-> RES_ORIG, content |-> NoBytes, err |-> c.err, bytes |-> NoBytes]
    /\ inserted = [id \in Ids |-> NoBytes]
    /\ faults = 0

Close ==
    \E r \in {do_close(ptr, metadata, file)} :
    /\ ptr' = r.ptr
    /\ metadata' = r.metadata
    /\ file' = r.file
    /\ last' = [op |-> "close", img_id |-> NoId, resolution |-> RES_ORIG,
                content |-> NoBytes, err |-> ERR_NONE, bytes |-> NoBytes]
    /\ UNCHANGED <<header, inserted>>

\* do_open on a handle that holds no stream; content records the mode and
\* the library call that fails
Open(open_mode, fault) ==
    \E r \in {do_open(open_mode, ptr, header, metadata, file, fault)} :
    /\ ptr.file = NULL
    /\ header' = r.header
    /\ metadata' = r.metadata
    /\ ptr' = r.ptr
    /\ last' = [op |-> "open", img_id |-> NoId, resolution |-> RES_ORIG,
                content |-> [open_mode |-> open_mode, fault |-> fault],
                err |-> r.err, bytes |-> NoBytes]
    /\ UNCHANGED <<file, inserted>>

NextLife ==
    \/ Close /\ Injected("none")
    \/ \E open_mode \in OpenModes, fault \in OpenFaults \cup {"none"} :
          Open(open_mode, fault) /\ Injected(fault)
    \/ \E c \in FaultContents, id \in Ids :
          ptr = OpenRefs("rb+") /\ Insert(c, id, "none") /\ Injected("none")
    \/ \E id \in Ids : ptr = OpenRefs("rb+") /\ Delete(id, "none") /\ Injected("none")
    \/ \E id \in Ids :
          ptr \in {OpenRefs("rb"), OpenRefs("rb+")} /\ Read(id, RES_ORIG, "none") /\ Injected("none")

SpecLife == InitLife /\ [][NextLife]_vars

\* C22: a successful do_create returns an open handle with num_files = 0,
\* version = 0 and max_files slots, every one invalid with all offsets 0,
\* and leaves a file that holds that header, then exactly max_files zeroed
\* slots, and nothing after the slot table.
C22_CreateLayout ==
    (last.op = "create" /\ last.err = ERR_NONE)
    => /\ ptr.file # NULL /\ ptr.metadata # NULL
       /\ header.num_files = 0 /\ header.imgst_version = 0
       /\ DOMAIN metadata = 0..(header.max_files - 1)
       /\ \A i \in DOMAIN metadata :
             /\ metadata[i].is_valid = EMPTY
             /\ \A r \in Resolutions : metadata[i].offset[r] = 0
       /\ file.header = header
       /\ DOMAIN file.metadata = 0..(header.max_files - 1)
       /\ \A i \in DOMAIN file.metadata :
             /\ file.metadata[i].img_id = NoId /\ file.metadata[i].SHA = 0
             /\ file.metadata[i].res_orig = <<0, 0>> /\ file.metadata[i].is_valid = 0
             /\ \A r \in Resolutions :
                   file.metadata[i].offset[r] = 0 /\ file.metadata[i].size[r] = 0
       /\ ftell_end(file) = SizeofHeader + header.max_files * SizeofMetadata

C22_Witness ==
    /\ last.op = "create" /\ last.err = ERR_NONE
    /\ header.max_files = MaxFiles
    /\ NbSlotsOnFile(file) = MaxFiles


(***************************************************************************)
(* Creation.  No store file exists and the handle of the command is not    *)
(* initialised; one of the two create commands runs, and the store it      *)
(* leaves is then opened and used.                                         *)
(***************************************************************************)
ERR_MAX_FILES == "ERR_MAX_FILES"
MAX_MAX_FILES == 100000
MAX_RES_THUMB == 128
MAX_RES_SMALL == 512

\* the values atouint32 and atouint16 return for the arguments of the options
MaxFilesArgs == {0, 1, 2, 65536, 65537, 65538, 100001}
ThumbResArgs == {<<64, 64>>, <<128, 128>>, <<0, 64>>, <<64, 129>>}
SmallResArgs == {<<256, 256>>, <<512, 512>>, <<256, 0>>, <<513, 256>>}
ByteOrders == {"little", "big"}
CreateFaults == {"calloc"}

UnsetRefs == [file |-> "unset", metadata |-> "unset"]

\* ((uint16_t*) options[0].arguments)[0]: the two bytes at the lowest
\* address of the 32-bit value
Uint16AtLowestAddress(value, byte_order) ==
    IF byte_order = "little" THEN value % 65536 ELSE (value \div 65536) % 65536

\* (conv == 0 || max_val < conv) for one of the values of an option
OutOfRange(values, max_val) ==
    \E k \in DOMAIN values : values[k] = 0 \/ max_val < values[k]

\* what a create command leaves: its return value, the file, and whether
\* its do_close read the file reference that do_create never assigned
CmdRet(err, c) ==
    [err |-> err, header |-> c.header, file |-> c.file,
     metadata |-> do_close(c.ptr, c.metadata, c.file).metadata,
     ptr |-> do_close(c.ptr, c.metadata, c.file).ptr,
     reads_unset |-> (c.ptr.file = "unset")]

\* do_create_cmd of imgStoreMgr.c with the three options given
do_create_cmd(max_files_arg, thumb_res_arg, small_res_arg, byte_order, fault) ==
    LET rejected == [header |-> NoStoreFile.header, metadata |-> NoTable,
                     ptr |-> NullRefs, file |-> NoStoreFile]
    IN IF OutOfRange(<<max_files_arg>>, MAX_MAX_FILES) THEN CmdRet(ERR_MAX_FILES, rejected)
       ELSE IF OutOfRange(thumb_res_arg, MAX_RES_THUMB) THEN CmdRet(ERR_RESOLUTIONS, rejected)
       ELSE IF OutOfRange(small_res_arg, MAX_RES_SMALL) THEN CmdRet(ERR_RESOLUTIONS, rejected)
       ELSE LET c == do_create(Uint16AtLowestAddress(max_files_arg, byte_order),
                               thumb_res_arg \o small_res_arg, fault)
            IN CmdRet(c.err, c)

\* do_create_cmd of imgStoreMgrClone.c: max_files is left at 0
do_create_cmd_clone(fault) ==
    LET c == do_create(0, DefaultResolutions, fault) IN CmdRet(c.err, c)

InitCreate ==
    /\ header = NoStoreFile.header
    /\ metadata = NoTable
    /\ ptr = UnsetRefs
    /\ file = NoStoreFile
    /\ last = NoCall
    /\ inserted = [id \in Ids |-> NoBytes]
    /\ faults = 0

\* the command has returned r; reading a reference that was never assigned
\* is undefined, so the command may also have been aborted
Created(r, args) ==
    /\ file = NoStoreFile /\ ptr = UnsetRefs
    /\ header' = r.header
    /\ metadata' = r.metadata
    /\ ptr' = r.ptr
    /\ file' = r.file
    /\ \E err \in (IF r.reads_unset THEN {r.err, "aborted"} ELSE {r.err}) :
          last' = [op |-> "create", img_id |-> NoId, resolution |-> RES_ORIG,
                   content |-> args, err |-> err, bytes |-> NoBytes]
    /\ UNCHANGED inserted

CreateCmd(max_files_arg, thumb_res_arg, small_res_arg, byte_order, fault) ==
    Created(do_create_cmd(max_files_arg, thumb_res_arg, small_res_arg, byte_order, fault),
            [max_files |-> max_files_arg, thumb_res |-> thumb_res_arg,
             small_res |-> small_res_arg, byte_order |-> byte_order, fault |-> fault])

CreateCmdClone(fault) ==
    Created(do_create_cmd_clone(fault),
            [max_files |-> 0, thumb_res |-> <<DEF_RES_THUMB, DEF_RES_THUMB>>,
             small_res |-> <<DEF_RES_SMALL, DEF_RES_SMALL>>, byte_order |-> "any",
             fault |-> fault])

NextCreate ==
    \/ \E max_files_arg \in MaxFilesArgs, thumb_res_arg \in ThumbResArgs,
          small_res_arg \in SmallResArgs, byte_order \in ByteOrders,
          fault \in CreateFaults \cup {"none"} :
          CreateCmd(max_files_arg, thumb_res_arg, small_res_arg, byte_order, fault)
          /\ Injected(fault)
    \/ \E fault \in CreateFaults \cup {"none"} : CreateCmdClone(fault) /\ Injected(fault)
    \/ file # NoStoreFile /\ Open("rb+", "none") /\ Injected("none")
    \/ \E c \in FaultContents, id \in Ids :
          ptr = OpenRefs("rb+") /\ Insert(c, id, "none") /\ Injected("none")
    \/ \E id \in Ids : ptr = OpenRefs("rb+") /\ Delete(id, "none") /\ Injected("none")
    \/ \E id \in Ids, res \in Resolutions :
          ptr = OpenRefs("rb+") /\ Read(id, res, "none") /\ Injected("none")

SpecCreate == InitCreate /\ [][NextCreate]_vars

\* the error codes that tell the caller an argument is not acceptable
InvalidArgumentCodes == {ERR_INVALID_ARGUMENT, ERR_MAX_FILES, ERR_RESOLUTIONS}

\* C23: creation with max_files 0 or above 100000, or with a thumbnail or
\* small dimension that is 0 or above its ceiling (128, 512), fails with an
\* invalid-argument error and produces no store file.
C23_CreateRejects ==
    [][(/\ last'.op = "create"
        /\ last'.content.fault = "none"
        /\ \/ OutOfRange(<<last'.content.max_files>>, MAX_MAX_FILES)
           \/ OutOfRange(last'.content.thumb_res, MAX_RES_THUMB)
           \/ OutOfRange(last'.content.small_res, MAX_RES_SMALL))
       => /\ last'.err \in InvalidArgumentCodes
          /\ file' = NoStoreFile]_vars


\* C24: a create command that accepts a requested max_files M, 1 <= M <=
\* 100000, leaves a store whose header holds max_files = M, and no later
\* insert, delete or read changes max_files or the target resolutions.
C24_CapacityFixed ==
    [][/\ (/\ last'.op = "create" /\ last'.err = ERR_NONE
           /\ 1 <= last'.content.max_files
           /\ last'.content.max_files <= MAX_MAX_FILES)
          => file'.header.max_files = last'.content.max_files
       /\ last'.op \in {"insert", "delete", "read"}
          => /\ header'.max_files = header.max_files
             /\ header'.res_resized = header.res_resized
             /\ file'.header.max_files = file.header.max_files
             /\ file'.header.res_resized = file.header.res_resized]_vars


\* the error do_open returns for a file that cannot be opened
CannotOpenError == do_open("rb", NullRefs, header, NoTable, file, "fopen").err

\* C25: do_open reads one header and then exactly header.max_files slots;
\* on a file that holds fewer slots than header.max_files it fails with a
\* corrupt-store error, which is not the error of a file that cannot be
\* opened, and leaves the handle with no stream and no slot table.
C25_TruncatedOpen ==
    [][(/\ last'.op = "open"
        /\ last'.content.open_mode \in {"rb", "rb+"}
        /\ last'.content.fault = "none")
       => IF NbSlotsOnFile(file) < file.header.max_files
          THEN /\ last'.err # ERR_NONE
               /\ last'.err # CannotOpenError
               /\ ptr' = NullRefs
               /\ metadata' = NoTable
          ELSE /\ last'.err = ERR_NONE
               /\ header' = file.header
               /\ DOMAIN metadata' = 0..(file.header.max_files - 1)
               /\ \A i \in DOMAIN metadata' : metadata'[i] = file.metadata[i]]_vars


\* C26: do_close never fails and is idempotent.  On an open handle it closes
\* the stream, frees the slot table and sets both references to NULL, and
\* the file is left as written; on the handle it leaves, and on a handle
\* whose do_open failed, it changes nothing.
C26_CloseIdempotent ==
    LET r == do_close(ptr, metadata, file)
        again == do_close(r.ptr, r.metadata, r.file)
    IN /\ r.ptr = NullRefs /\ r.metadata = NoTable /\ r.file = file
       /\ again = r
       /\ last.op = "close" => (ptr = NullRefs /\ metadata = NoTable)
       /\ (last.op = "open" /\ last.err # ERR_NONE)
          => (r.ptr = ptr /\ r.metadata = metadata /\ r.file = file)

C26_Witness ==
    /\ last.op = "close"
    /\ ptr = NullRefs
    /\ file.header.num_files > 0


\* the valid slots that hold an id
HoldersOf(img_id) == {i \in Slots : Valid(metadata, i) /\ metadata[i].img_id = img_id}

\* C27: findMetadataIndex returns the lowest index below max_files of a valid
\* slot whose id is the given id; when no valid slot holds the id it returns
\* not-found and leaves the index as the caller initialised it (0), also
\* when an invalid slot still carries the id.
C27_FindLowestValid ==
    \A img_id \in Ids :
       LET r == findMetadataIndex(img_id, header, metadata) IN
       IF HoldersOf(img_id) = {}
       THEN r.err = ERR_FILE_NOT_FOUND /\ r.idx = 0
       ELSE /\ r.err = ERR_NONE
            /\ r.idx \in HoldersOf(img_id)
            /\ r.idx < header.max_files
            /\ \A j \in HoldersOf(img_id) : r.idx <= j

C27_Witness ==
    \E a \in Ids, b \in Ids :
       /\ last.op = "delete" /\ last.err = ERR_NONE /\ last.img_id = a
       /\ metadata[0].img_id = a /\ ~Valid(metadata, 0)
       /\ findMetadataIndex(a, header, metadata).err = ERR_FILE_NOT_FOUND
       /\ findMetadataIndex(b, header, metadata) = [err |-> ERR_NONE, idx |-> 1]


(***************************************************************************)
(* Direct calls of lazily_resize with an index, as do_list_cmd of          *)
(* imgStoreMgrClone.c makes them on the handle it opened.                  *)
(***************************************************************************)
ResizeCodes == {RES_THUMB, RES_SMALL}
Indices == 0..MaxFiles

Resize(res_code, idx) ==
    \E r \in {lazily_resize(res_code, header, metadata, file, idx, "none")} :
    /\ Len(file.heap) + 2 <= MaxHeapLen
    /\ header' = r.header
    /\ metadata' = r.metadata
    /\ file' = r.file
    /\ last' = [op |-> "resize", img_id |-> NoId, resolution |-> res_code,
                content |-> [idx |-> idx], err |-> r.err, bytes |-> NoBytes]
    /\ UNCHANGED <<inserted, ptr>>

NextResize ==
    \/ \E c \in FaultContents, id \in Ids : Insert(c, id, "none") /\ Injected("none")
    \/ \E id \in Ids : Delete(id, "none") /\ Injected("none")
    \/ \E id \in Ids, res \in Resolutions : Read(id, res, "none") /\ Injected("none")
    \/ \E res_code \in ResizeCodes, idx \in Indices : Resize(res_code, idx) /\ Injected("none")

SpecResize == Init /\ [][NextResize]_vars

\* C28: validMetadataIndex succeeds exactly for an index below max_files
\* whose slot is valid, and fails with ERR_INVALID_ARGUMENT otherwise;
\* lazily_resize for the thumbnail or the small resolution with any other
\* index fails with ERR_INVALID_ARGUMENT and leaves the header, the slot
\* table and the file as they were.
C28_IndexValidation ==
    [][/\ \A idx \in Indices :
             validMetadataIndex(idx, header, metadata) =
                IF idx < header.max_files /\ Valid(metadata, idx)
                THEN ERR_NONE ELSE ERR_INVALID_ARGUMENT
       /\ (/\ last'.op = "resize"
           /\ last'.resolution \in ResizeCodes
           /\ ~(last'.content.idx < header.max_files /\ Valid(metadata, last'.content.idx)))
          => /\ last'.err = ERR_INVALID_ARGUMENT
             /\ header' = header /\ metadata' = metadata /\ file' = file]_vars

C28_Witness ==
    /\ last.op = "resize"
    /\ last.err = ERR_INVALID_ARGUMENT
    /\ last.content.idx < header.max_files
    /\ metadata[last.content.idx].img_id # NoId
    /\ ~Valid(metadata, last.content.idx)


\* C29: do_delete and do_read of an id that no valid slot holds fail with
\* ERR_FILE_NOT_FOUND and leave the header, every slot and the file as they
\* were; this covers the empty store and an id that was deleted before.
C29_UnknownIdNotFound ==
    [][(/\ last'.op \in {"delete", "read"}
        /\ HoldersOf(last'.img_id) = {})
       => /\ last'.err = ERR_FILE_NOT_FOUND
          /\ header' = header /\ metadata' = metadata /\ file' = file]_vars

C29_Witness ==
    /\ last.op = "delete"
    /\ last.err = ERR_FILE_NOT_FOUND
    /\ header.num_files > 0
    /\ \E i \in Slots : ~Valid(metadata, i) /\ metadata[i].img_id = last.img_id


\* C30: a successful do_delete clears is_valid of the slot that held the id
\* and updates num_files and the version in the header, in memory and in the
\* file; the id, hash, resolution, offsets and sizes of that slot, every
\* other slot, and the heap with its length are as they were.
C30_DeleteFrame ==
    [][(last'.op = "delete" /\ last'.err = ERR_NONE)
       => \E idx \in HoldersOf(last'.img_id) :
             /\ metadata' = [metadata EXCEPT ![idx].is_valid = EMPTY]
             /\ header' = [header EXCEPT !.num_files = @ - 1, !.imgst_version = @ + 1]
             /\ file'.header = header'
             /\ file'.metadata[idx] = metadata'[idx]
             /\ \A i \in Slots \ {idx} : file'.metadata[i] = file.metadata[i]
             /\ file'.heap = file.heap]_vars

C30_Witness ==
    /\ last.op = "delete" /\ last.err = ERR_NONE
    /\ \E i \in Slots, j \in Slots :
          /\ ~Valid(metadata, i) /\ metadata[i].img_id = last.img_id
          /\ metadata[i].offset[RES_ORIG] # INIT_OFFSET /\ metadata[i].size[RES_ORIG] > 0
          /\ Valid(metadata, j)
    /\ Len(file.heap) > 0


\* C31: the ratio used to materialise a thumbnail or small variant is
\* min(target width / width, target height / height) and is never greater
\* than 1, so the variant a read returns is never wider or higher than the
\* original it was derived from.
C31_ShrinkOnly ==
    [][(/\ last'.op = "read" /\ last'.err = ERR_NONE
        /\ last'.resolution \in ResizeCodes)
       => LET orig == ReadNext(last'.img_id, RES_ORIG).bytes
              image == vips_jpegload_buffer(orig)
              target_width == header.res_resized[2 * last'.resolution + 1]
              target_height == header.res_resized[2 * last'.resolution + 2]
              ratio == shrink_value(image, target_width, target_height)
          IN /\ ratio.num * image.Xsize <= target_width * ratio.den
             /\ ratio.num * image.Ysize <= target_height * ratio.den
             /\ ratio \in {[num |-> target_width, den |-> image.Xsize],
                           [num |-> target_height, den |-> image.Ysize]}
             /\ ratio.num <= ratio.den
             /\ last'.bytes[1] <= orig[1] /\ last'.bytes[2] <= orig[2]]_vars


(***************************************************************************)
(* A damaged file.  do_open takes the slots as the file holds them, so a   *)
(* file in which the offset of the original of a valid slot was zeroed     *)
(* gives a handle with such a slot.  The file is one that do_create and a  *)
(* successful do_insert wrote, with that offset zeroed afterwards.         *)
(***************************************************************************)
ZeroedOrigOffset(f, idx) == [f EXCEPT !.metadata[idx].offset[RES_ORIG] = INIT_OFFSET]

InitDamaged ==
    \E max_files \in 1..MaxFiles, image_buffer \in FaultContents, img_id \in Ids :
    LET c == do_create(max_files, DefaultResolutions, "none")
        r == do_insert(image_buffer, img_id, c.header, c.metadata, c.file, "none")
    IN /\ header = r.header
       /\ metadata = NoTable
       /\ ptr = NullRefs
       /\ file = ZeroedOrigOffset(r.file, 0)
       /\ last = [op |-> "damage", img_id |-> img_id, resolution |-> RES_ORIG,
                  content |-> image_buffer, err |-> r.err, bytes |-> NoBytes]
       /\ inserted = [id \in Ids |-> IF id = img_id THEN image_buffer ELSE NoBytes]
       /\ faults = 0

SpecDamaged == InitDamaged /\ [][NextLife]_vars

\* C32: do_read of the original of a valid slot whose offset for the
\* original is 0 fails and returns no bytes; it does not return bytes read
\* from offset 0 of the file.
C32_MissingOriginal ==
    [][(/\ last'.op = "read" /\ last'.resolution = RES_ORIG
        /\ \E i \in HoldersOf(last'.img_id) : metadata[i].offset[RES_ORIG] = INIT_OFFSET)
       => (last'.err # ERR_NONE /\ last'.bytes = NoBytes)]_vars


(***************************************************************************)
(* Compaction.  do_gbcollect is declared in imgStore.h and has no          *)
(* implementation; it is modelled from the algorithm of the specification: *)
(* the source is opened read-only, a destination store with the same       *)
(* max_files and resolutions is created, every valid slot is copied in     *)
(* ascending order with a mapping from source offsets to destination       *)
(* offsets per variant, and the destination replaces the source only when  *)
(* it is complete.                                                         *)
(***************************************************************************)
GcFaults == {"fopen", "fread", "fwrite"}

\* variant: every variant is copied again, without the mapping from source
\* offsets to destination offsets
GcCopyVariants_without_mapping(r, s, d, dst, map, src, fault) ==
    LET Copy(acc, k) ==
            IF ~acc.ok \/ k < r \/ s.offset[k] = INIT_OFFSET
            THEN acc
            ELSE LET rd == fread_at(src, s.offset[k], s.size[k], fault)
                     offset == ftell_end(acc.file)
                     w == fwrite_end(acc.file, rd.bytes, fault)
                 IN IF ~rd.ok \/ ~w.ok
                    THEN [acc EXCEPT !.ok = FALSE]
                    ELSE [acc EXCEPT !.slot.offset[k] = offset,
                                     !.slot.size[k] = s.size[k],
                                     !.file = w.file]
    IN Copy(Copy(Copy([ok |-> TRUE, slot |-> d, file |-> dst, map |-> map],
                      RES_THUMB), RES_SMALL), RES_ORIG)

\* the variants r..NB_RES-1 of the source slot s are copied to the
\* destination slot d
RECURSIVE GcCopyVariants(_, _, _, _, _, _, _)
GcCopyVariants(r, s, d, dst, map, src, fault) ==
    IF r = NB_RES
    THEN [ok |-> TRUE, slot |-> d, file |-> dst, map |-> map]
    ELSE IF s.offset[r] = INIT_OFFSET
    THEN GcCopyVariants(r + 1, s, d, dst, map, src, fault)
    ELSE IF \E m \in map : m.res = r /\ m.src = s.offset[r]
    THEN LET m == CHOOSE m \in map : m.res = r /\ m.src = s.offset[r]
         IN GcCopyVariants(r + 1, s,
                           [d EXCEPT !.offset[r] = m.dst, !.size[r] = m.size],
                           dst, map, src, fault)
    ELSE LET rd == fread_at(src, s.offset[r], s.size[r], fault)
             offset == ftell_end(dst)
             w == fwrite_end(dst, rd.bytes, fault)
         IN IF ~rd.ok \/ ~w.ok
            THEN [ok |-> FALSE, slot |-> d, file |-> dst, map |-> map]
            ELSE GcCopyVariants(r + 1, s,
                                [d EXCEPT !.offset[r] = offset, !.size[r] = s.size[r]],
                                w.file,
                                map \cup {[res |-> r, src |-> s.offset[r],
                                           dst |-> offset, size |-> s.size[r]]},
                                src, fault)

\* the valid slots i..max_files-1 of the source are copied to the
\* destination slots n, n+1, ...
RECURSIVE GcCopySlots(_, _, _, _, _, _, _)
GcCopySlots(i, n, hdr, md, dst, map, src_and_fault) ==
    IF hdr.max_files <= i
    THEN [ok |-> TRUE, file |-> dst, n |-> n]
    ELSE IF md[i].is_valid = EMPTY
    THEN GcCopySlots(i + 1, n, hdr, md, dst, map, src_and_fault)
    ELSE LET d == [ZeroMetadata EXCEPT !.img_id = md[i].img_id, !.SHA = md[i].SHA,
                                       !.res_orig = md[i].res_orig, !.is_valid = NON_EMPTY]
             v == GcCopyVariants(0, md[i], d, dst, map, src_and_fault.src, src_and_fault.fault)
         IN IF ~v.ok
            THEN [ok |-> FALSE, file |-> dst, n |-> n]
            ELSE GcCopySlots(i + 1, n + 1, hdr, md,
                             [v.file EXCEPT !.metadata[n] = v.slot], v.map, src_and_fault)

do_gbcollect(f, fault) ==
    LET o == do_open("rb", NullRefs, f.header, NoTable, f,
                     IF fault = "fopen" THEN "fopen" ELSE "none")
    IN IF o.err # ERR_NONE
       THEN [err |-> o.err, file |-> f]
       ELSE LET c == do_create(o.header.max_files, o.header.res_resized, "none")
                g == GcCopySlots(0, 0, o.header, o.metadata, c.file, {},
                                 [src |-> f, fault |-> fault])
            IN IF ~g.ok
               THEN [err |-> ERR_IO, file |-> f]
               ELSE [err |-> ERR_NONE, file |-> [g.file EXCEPT !.header.num_files = g.n]]

\* the inputs of the calls explored with compaction: two ids that are given
\* one content and a third id that is given another, on a store of up to
\* MaxFiles + 1 slots and MaxVersion + 1 changes
GcInserts == {<<JpegA, "x">>, <<JpegA, "y">>, <<JpegB, "z">>}
GcIds == {"x", "y", "z"}

InitGc ==
    \E max_files \in 1..(MaxFiles + 1) :
    LET c == do_create(max_files, DefaultResolutions, "none") IN
    /\ header = c.header
    /\ metadata = c.metadata
    /\ ptr = OpenRefs("rb+")
    /\ file = c.file
    /\ last = NoCall
    /\ inserted = [id \in GcIds |-> NoBytes]
    /\ faults = 0

\* do_close, do_gbcollect on the path of the file, do_open
Gbcollect(fault) ==
    \E r \in {do_gbcollect(do_close(ptr, metadata, file).file, fault)} :
    /\ file' = r.file
    /\ header' = do_open("rb+", NullRefs, header, NoTable, r.file, "none").header
    /\ metadata' = do_open("rb+", NullRefs, header, NoTable, r.file, "none").metadata
    /\ ptr' = do_open("rb+", NullRefs, header, NoTable, r.file, "none").ptr
    /\ last' = [op |-> "gbcollect", img_id |-> NoId, resolution |-> RES_ORIG,
                content |-> [valid |-> NumValid(metadata), heap |-> Len(file.heap)],
                err |-> r.err, bytes |-> NoBytes]
    /\ UNCHANGED inserted

\* inserts, deletes and reads of the thumbnail, then at most MaxFaults
\* compactions, each with or without a failing library call
NextGc ==
    \/ \E i \in GcInserts :
          faults = 0 /\ InsertUpTo(i[1], i[2], "none", MaxVersion + 1) /\ Injected("none")
    \/ \E id \in GcIds : faults = 0 /\ DeleteUpTo(id, "none", MaxVersion + 1) /\ Injected("none")
    \/ \E id \in GcIds : faults = 0 /\ Read(id, RES_THUMB, "none") /\ Injected("none")
    \/ \E fault \in GcFaults \cup {"none"} : Gbcollect(fault) /\ Injected("gbcollect")

SpecGc == InitGc /\ [][NextGc]_vars

\* the bytes the file holds for variant r of slot i
VariantBytes(f, i, r) == fread_at(f, f.metadata[i].offset[r], f.metadata[i].size[r], "none").bytes

\* the valid slots of a file
ValidOnFile(f) == {i \in DOMAIN f.metadata : f.metadata[i].is_valid # EMPTY}

\* C33: compaction preserves content.  A successful do_gbcollect leaves a
\* store with exactly the valid entries of the source: every id keeps, for
\* every variant it had, the same bytes; entries that shared a heap range
\* share one range in the result; no other slot is valid.  A failing
\* do_gbcollect leaves the source file as it was.
C33_CompactionPreserves ==
    [][last'.op = "gbcollect"
       => IF last'.err # ERR_NONE THEN file' = file
          ELSE /\ Cardinality(ValidOnFile(file')) = Cardinality(ValidOnFile(file))
               /\ file'.header.num_files = Cardinality(ValidOnFile(file))
               /\ \A i \in ValidOnFile(file) :
                     \E k \in ValidOnFile(file') :
                        /\ file'.metadata[k].img_id = file.metadata[i].img_id
                        /\ file'.metadata[k].SHA = file.metadata[i].SHA
                        /\ \A r \in Resolutions :
                              /\ file'.metadata[k].size[r] = file.metadata[i].size[r]
                              /\ (file.metadata[i].offset[r] = INIT_OFFSET)
                                    = (file'.metadata[k].offset[r] = INIT_OFFSET)
                              /\ VariantBytes(file', k, r) = VariantBytes(file, i, r)
                              /\ \A j \in ValidOnFile(file) :
                                    file.metadata[j].offset[r] = file.metadata[i].offset[r]
                                    => \E l \in ValidOnFile(file') :
                                          /\ file'.metadata[l].img_id = file.metadata[j].img_id
                                          /\ file'.metadata[l].offset[r] = file'.metadata[k].offset[r]]_vars

\* two valid entries that share one range, one of them with a thumbnail,
\* were compacted with the range of a deleted entry, which is gone
C33_Witness ==
    /\ last.op = "gbcollect" /\ last.err = ERR_NONE
    /\ header.max_files = MaxFiles + 1
    /\ \E i \in ValidOnFile(file), j \in ValidOnFile(file) :
          /\ i # j
          /\ file.metadata[i].offset[RES_ORIG] = file.metadata[j].offset[RES_ORIG]
          /\ file.metadata[i].offset[RES_THUMB] # INIT_OFFSET
    /\ Cardinality(ValidOnFile(file)) = 2
    /\ last.content.valid = 2
    /\ Len(file.heap) < last.content.heap

C35_PersistOrdering ==
    [][/\ file'.header.num_files >= NumValid(file'.metadata)
       /\ last'.op = "crash" /\ last'.content # NoBytes
          => /\ file'.header.num_files = file.header.num_files + 1
             /\ file'.header.imgst_version = file.header.imgst_version + 1
             /\ file'.metadata = file.metadata
       /\ last'.op = "crash" /\ last'.content = NoBytes
          => /\ file'.header = file.header
             /\ NumValid(file'.metadata) = NumValid(file.metadata) - 1
             /\ \A i \in DOMAIN file.metadata :
                   file'.metadata[i].is_valid # EMPTY => file'.metadata[i] = file.metadata[i]]_vars

\* the process stopped in do_delete after the slot write, with another
\* entry still valid: the file counts one entry more than it holds
C35_Witness ==
    /\ last.op = "crash" /\ last.content = NoBytes
    /\ NumValid(file.metadata) = 1
    /\ file.header.num_files = 2

\* C36: every offset recorded by an append, of a new original in do_insert
\* or of a new thumbnail or small image in lazily_resize, is the length the
\* file had before the append and at least sizeof(header) + max_files *
\* sizeof(slot); so a recorded offset is never the sentinel 0 and no heap
\* range begins in the header or the slot table.
C36_AppendPastTable ==
    [][\A i \in Slots, r \in Resolutions :
          (Len(file'.heap) > Len(file.heap) /\ metadata'[i].offset[r] # metadata[i].offset[r])
          => /\ metadata'[i].offset[r] >= SizeofHeader + header.max_files * SizeofMetadata
             /\ metadata'[i].offset[r] # INIT_OFFSET
             /\ metadata'[i].offset[r]
                   = SizeofHeader + header.max_files * SizeofMetadata + Len(file.heap)]_vars

\* a thumbnail was appended behind an original, in a store of MaxFiles slots
C36_Witness ==
    /\ last.op = "read" /\ last.err = ERR_NONE /\ last.resolution = RES_THUMB
    /\ header.max_files = MaxFiles
    /\ \E i \in Slots :
          /\ Valid(metadata, i)
          /\ metadata[i].offset[RES_ORIG] = SizeofHeader + MaxFiles * SizeofMetadata
          /\ metadata[i].offset[RES_THUMB]
                = SizeofHeader + MaxFiles * SizeofMetadata + metadata[i].size[RES_ORIG]

\* C37: for every valid slot and every variant with offset # 0 the range
\* [offset, offset + size) lies in the file behind the slot table, and the
\* ranges of the originals of two valid slots are the same range or disjoint.
C37_RangesInFile ==
    /\ \A i \in Slots, r \in Resolutions :
          (Valid(metadata, i) /\ metadata[i].offset[r] # INIT_OFFSET)
          => /\ metadata[i].offset[r] >= SizeofHeader + header.max_files * SizeofMetadata
             /\ metadata[i].offset[r] + metadata[i].size[r]
                   <= SizeofHeader + header.max_files * SizeofMetadata + Len(file.heap)
    /\ \A i \in Slots, j \in Slots :
          (Valid(metadata, i) /\ Valid(metadata, j))
          => \/ /\ metadata[i].offset[RES_ORIG] = metadata[j].offset[RES_ORIG]
                /\ metadata[i].size[RES_ORIG] = metadata[j].size[RES_ORIG]
             \/ metadata[i].offset[RES_ORIG] + metadata[i].size[RES_ORIG]
                   <= metadata[j].offset[RES_ORIG]
             \/ metadata[j].offset[RES_ORIG] + metadata[j].size[RES_ORIG]
                   <= metadata[i].offset[RES_ORIG]

\* two valid slots with disjoint originals, one of them with a thumbnail
C37_Witness ==
    \E i \in Slots, j \in Slots :
       /\ Valid(metadata, i) /\ Valid(metadata, j)
       /\ metadata[i].offset[RES_ORIG] + metadata[i].size[RES_ORIG]
             <= metadata[j].offset[RES_ORIG]
       /\ metadata[i].offset[RES_THUMB] # INIT_OFFSET
       /\ metadata[i].offset[RES_THUMB] + metadata[i].size[RES_THUMB]
             = SizeofHeader + header.max_files * SizeofMetadata + Len(file.heap)

\* C38: do_insert decodes the content only after it appended it.  An insert
\* of new content that fails with the error of the codec has grown the file
\* by exactly the bytes of the content, which no valid slot references; in
\* memory num_files, the version and every valid flag are as before, and in
\* the file the header and the slot table are as before.
C38_AppendBeforeDecode ==
    [][(last'.op = "insert" /\ last'.err = ERR_IMGLIB)
       => /\ file'.heap = file.heap \o last'.content
          /\ \A i \in Slots, r \in Resolutions :
                Valid(metadata', i)
                => metadata'[i].offset[r] + metadata'[i].size[r]
                      <= SizeofHeader + header.max_files * SizeofMetadata + Len(file.heap)
          /\ header' = header
          /\ \A i \in Slots : metadata'[i].is_valid = metadata[i].is_valid
          /\ file'.header = file.header
          /\ file'.metadata = file.metadata]_vars

\* content that is no JPEG was inserted next to a valid entry and rejected,
\* and its bytes are at the end of the file
C38_Witness ==
    /\ last.op = "insert" /\ last.err = ERR_IMGLIB /\ last.content = NotJpeg
    /\ NumValid(metadata) = 1 /\ header.num_files = 1
    /\ Len(file.heap) = 4
    /\ SubSeq(file.heap, 3, 4) = NotJpeg

\* C39: frame of read.  A successful do_read changes no field of the header
\* and no slot but the one it read.  A read of the original, or of a variant
\* that is materialized, changes nothing in memory or in the file; a read of
\* a thumbnail or small image that is not materialized changes the offset
\* and the size of that variant in that slot, in memory and in the file, and
\* appends to the file, and nothing else.
C39_ReadFrame ==
    [][(last'.op = "read" /\ last'.err = ERR_NONE)
       => LET idx == findMetadataIndex(last'.img_id, header, metadata).idx
              res == last'.resolution
          IN /\ header' = header
             /\ file'.header = file.header
             /\ \A i \in Slots \ {idx} :
                   metadata'[i] = metadata[i] /\ file'.metadata[i] = file.metadata[i]
             /\ IF res = RES_ORIG \/ metadata[idx].offset[res] # INIT_OFFSET
                THEN metadata' = metadata /\ file' = file
                ELSE /\ metadata'[idx]
                           = [metadata[idx] EXCEPT !.offset[res] = metadata'[idx].offset[res],
                                                   !.size[res] = metadata'[idx].size[res]]
                     /\ metadata'[idx].offset[res] # INIT_OFFSET
                     /\ file'.metadata[idx] = metadata'[idx]
                     /\ Len(file'.heap) > Len(file.heap)
                     /\ SubSeq(file'.heap, 1, Len(file.heap)) = file.heap]_vars

\* the thumbnail of one of two valid entries was read for the first time
C39_Witness ==
    /\ last.op = "read" /\ last.err = ERR_NONE /\ last.resolution = RES_THUMB
    /\ NumValid(metadata) = 2
    /\ \E i \in Slots :
          /\ metadata[i].img_id = last.img_id /\ Valid(metadata, i)
          /\ metadata[i].offset[RES_THUMB] + metadata[i].size[RES_THUMB]
                = SizeofHeader + header.max_files * SizeofMetadata + Len(file.heap)
          /\ \A j \in Slots \ {i} : metadata[j].offset[RES_THUMB] = INIT_OFFSET

====
